---- MODULE Spec2Model ----
(***************************************************************************)
(* The provider data engine of crates/edr_provider/src/data.rs             *)
(* (ProviderData) as a state machine: one variable per field of the        *)
(* struct, one action per public operation.  The collaborators that live   *)
(* in other crates (blockchain store, world state, mempool, block          *)
(* producer, randomness source, filter, snapshot) are modelled from        *)
(* their description in the specification.                                 *)
(***************************************************************************)
EXTENDS Integers, Sequences, FiniteSets, TLC

(***************************************************************************)
(* Bounds of the exploration.                                              *)
(***************************************************************************)
\* number of steps (operations and clock ticks) of a behaviour of Spec
MaxSteps == 3
\* ... of SpecMining
MiningSteps == 5
\* ... of SpecRestore
RestoreSteps == 3
\* ... of SpecFilter
FilterSteps == 5
\* ... of SpecLookup
LookupSteps == 5
\* ... of SpecTime
TimeSteps == 5
\* ... of SpecFault
FaultSteps == 4
\* ... of SpecPool
PoolSteps == 4
\* ... of SpecEvict
EvictSteps == 5
\* ... of SpecForce
ForceSteps == 4
\* ... of SpecHeights
HeightSteps == 5
\* ... of SpecFrame
FrameSteps == 5

(***************************************************************************)
(* Machine words.  u64 arithmetic is kept modulo a power of two; the       *)
(* width is scaled down to 16 bits because TLC's integers are 32 bits      *)
(* wide.  An overflowing +, - either wraps (release build) or panics       *)
(* (build with overflow checks).                                           *)
(***************************************************************************)
WordModulus == 2 ^ 16

WrapAdd(a, b) == (a + b) % WordModulus

WrapSub(a, b) == (a - b + WordModulus) % WordModulus

AddOverflows(a, b) == a + b >= WordModulus

SubOverflows(a, b) == a < b

(***************************************************************************)
(* Option<T>: None is the empty tuple, Some(v) the one-element tuple.      *)
(***************************************************************************)
None == << >>

Some(v) == << v >>

IsSome(o) == o # << >>

Unwrap(o) == o[1]

(***************************************************************************)
(* Maps with a changing key set (BTreeMap, HashMap).                       *)
(***************************************************************************)
Put(f, k, v) == [x \in (DOMAIN f) \cup {k} |-> IF x = k THEN v ELSE f[x]]

Restrict(f, S) == [x \in S |-> f[x]]

EmptyMap == [x \in {} |-> 0]

(***************************************************************************)
(* Configuration domains.                                                  *)
(***************************************************************************)
\* "L" is a local account (its secret key is known), "X" is not.
Addresses == {"L", "X"}

local_accounts == {"L"}

\* SpecId: the hard forks in their total order.
LONDON == "LONDON"

MERGE == "MERGE"

SpecIds == {LONDON, MERGE}

SpecRank(s) == IF s = MERGE THEN 1 ELSE 0

AtLeastMerge(s) == SpecRank(s) >= SpecRank(MERGE)

\* Values handed to set_balance, set_nonce, set_account_storage_slot.
Balances == {0, 3}

Nonces == {0, 1}

SlotValues == {1}

Codes == {"c1"}

BaseFees == {1}

RandaoValues == {10}

(***************************************************************************)
(* Accounts.  KECCAK_EMPTY is the hash of no code; the hash of a code is   *)
(* an injective image of it.                                               *)
(***************************************************************************)
Keccak(code) == << "keccak", code >>

KECCAK_EMPTY == Keccak("")

CodeHashOf(code_opt) == IF IsSome(code_opt) THEN Keccak(Unwrap(code_opt)) ELSE KECCAK_EMPTY

AccountInfo(balance, nonce, code_opt) ==
    [balance |-> balance, nonce |-> nonce, code_hash |-> CodeHashOf(code_opt), code |-> code_opt]

\* The state keeps an account without its code (the code is found by hash).
StripCode(info) == [info EXCEPT !.code = None]

(***************************************************************************)
(* World state handle (section 4.3): accounts and one storage slot per     *)
(* address.                                                                *)
(***************************************************************************)
EmptyState == [accounts |-> [a \in Addresses |-> None], storage |-> [a \in Addresses |-> 0]]

Basic(st, a) == st.accounts[a]

CodeByHash(st, h) == h[2]

Storage(st, a) == st.storage[a]

StateRoot(st) == << "root", st >>

\* AccountModifierFn: what the closure assigns to balance, nonce and code
\* (None: left alone).
ModifierOf(balance_opt, nonce_opt, code_opt) ==
    [balance |-> balance_opt, nonce |-> nonce_opt, code |-> code_opt]

Modified(modifier, info) ==
    [info EXCEPT !.balance = IF IsSome(modifier.balance) THEN Unwrap(modifier.balance) ELSE @,
                 !.nonce = IF IsSome(modifier.nonce) THEN Unwrap(modifier.nonce) ELSE @,
                 !.code = IF IsSome(modifier.code) THEN Unwrap(modifier.code) ELSE @]

\* modify_account: the modifier on the existing account, else the default;
\* returns the post-modification AccountInfo (code stripped).
ModifyAccount(st, a, modifier, default_info) ==
    LET with_code(info) == IF info.code_hash = KECCAK_EMPTY THEN info
                           ELSE [info EXCEPT !.code = Some(CodeByHash(st, info.code_hash))]
        changed == IF IsSome(Basic(st, a)) THEN Modified(modifier, with_code(Unwrap(Basic(st, a))))
                   ELSE default_info
        stored == StripCode([changed EXCEPT !.code_hash = CodeHashOf(changed.code)])
    IN  [state |-> [st EXCEPT !.accounts[a] = Some(stored)], info |-> stored]

\* set_account_storage_slot: writes the slot and returns its prior value.
StateSetSlot(st, a, value) ==
    [state |-> [st EXCEPT !.storage[a] = value], old |-> st.storage[a]]

(***************************************************************************)
(* StateDiff and irregular state (section 4.2).  A diff maps an address to *)
(* its account info and, when written, its storage slot.                   *)
(***************************************************************************)
StorageSlotChanged(original_value, present_value) ==
    [present_value |-> present_value, original_value |-> original_value]

ApplyAccountChange(diff, a, info) ==
    IF a \in DOMAIN diff THEN [diff EXCEPT ![a].info = info]
    ELSE Put(diff, a, [info |-> info, slot |-> None])

ApplyStorageChange(diff, a, slot, info_opt) ==
    IF a \in DOMAIN diff THEN [diff EXCEPT ![a].slot = Some(slot)]
    ELSE Put(diff, a, [info |-> IF IsSome(info_opt) THEN Unwrap(info_opt)
                                ELSE AccountInfo(0, 0, None),
                       slot |-> Some(slot)])

\* state.commit(diff): every account of the diff replaces the state's.
CommitDiff(st, diff) ==
    [accounts |-> [a \in Addresses |->
                     IF a \in DOMAIN diff THEN Some(StripCode(diff[a].info)) ELSE st.accounts[a]],
     storage |-> [a \in Addresses |->
                     IF a \in DOMAIN diff /\ IsSome(diff[a].slot)
                     THEN Unwrap(diff[a].slot).present_value ELSE st.storage[a]]]

StateOverrideWithStateRoot(root) == [diff |-> EmptyMap, state_root |-> root]

\* Faulty variant of OverrideAt: a new override for every write.
OverrideAtFresh(irregular, n, root) == StateOverrideWithStateRoot(root)

\* state_override_at_block_number(n).or_insert_with(with_state_root(root))
OverrideAt(irregular, n, root) ==
    IF n \in DOMAIN irregular THEN irregular[n] ELSE StateOverrideWithStateRoot(root)

(***************************************************************************)
(* Randomness source (section 4.1): a hash chain over one value.           *)
(***************************************************************************)
HashStep(v) == v + 1

RandomSeed == 0

GenNextValue(gen) == HashStep(gen)

GenSetNext(gen, v) == v

(***************************************************************************)
(* Transactions.  A pending transaction carries its caller; its upfront    *)
(* cost is gas_limit * gas_price + value.                                  *)
(***************************************************************************)
Tx(hash, caller, nonce) ==
    [hash |-> hash, caller |-> caller, nonce |-> nonce, gas_limit |-> 1, gas_price |-> 1, value |-> 1]

Txs == {Tx("t1", "L", 0), Tx("t2", "L", 1), Tx("t3", "X", 0)}

UpfrontCost(tx) == tx.gas_limit * tx.gas_price + tx.value

AcctNonce(st, a) == IF IsSome(Basic(st, a)) THEN Unwrap(Basic(st, a)).nonce ELSE 0

AcctBalance(st, a) == IF IsSome(Basic(st, a)) THEN Unwrap(Basic(st, a)).balance ELSE 0

SeqToSet(q) == {q[i] : i \in 1..Len(q)}

(***************************************************************************)
(* Mempool (section 4.5): the pending and the future queue, each in        *)
(* arrival order.                                                          *)
(***************************************************************************)
MemPoolNew(block_gas_limit) ==
    [block_gas_limit |-> block_gas_limit, pending |-> << >>, future |-> << >>]

PoolTxs(pool) == SeqToSet(pool.pending) \cup SeqToSet(pool.future)

PoolTransactionByHash(pool, h) ==
    LET found == {t \in PoolTxs(pool) : t.hash = h}
    IN  IF found = {} THEN None ELSE Some(CHOOSE t \in found : TRUE)

\* Still valid against the state: nonce not used up, funds and gas limit suffice.
PoolValid(pool, st, tx) ==
    /\ tx.nonce >= AcctNonce(st, tx.caller)
    /\ UpfrontCost(tx) <= AcctBalance(st, tx.caller)
    /\ tx.gas_limit <= pool.block_gas_limit

\* tx continues the caller's run of nonces that starts at the account nonce.
Contiguous(txset, st, tx) ==
    \A n \in AcctNonce(st, tx.caller)..tx.nonce :
        \E t \in txset : t.caller = tx.caller /\ t.nonce = n

\* Faulty variant of Repartition: everything is routed to the pending queue.
RepartitionAllPending(pool, st, queue) ==
    [pool EXCEPT !.pending = queue, !.future = << >>]

Repartition(pool, st, queue) ==
    LET pend(t) == Contiguous(SeqToSet(queue), st, t)
        fut(t) == ~pend(t)
    IN  [pool EXCEPT !.pending = SelectSeq(queue, pend), !.future = SelectSeq(queue, fut)]

\* Faulty variant of MemPoolUpdate: nothing is dropped.
MemPoolUpdateKeeping(pool, st) ==
    Repartition(pool, st, pool.pending \o pool.future)

\* update(state): drop what became invalid, re-partition the rest.
MemPoolUpdate(pool, st) ==
    LET ok(t) == PoolValid(pool, st, t)
    IN  Repartition(pool, st, SelectSeq(pool.pending \o pool.future, ok))

\* add_transaction(state, tx): an error name, or the pool with tx routed.
MemPoolAddError(pool, st, tx) ==
    IF IsSome(PoolTransactionByHash(pool, tx.hash)) THEN "TransactionAlreadyExists"
    ELSE IF tx.gas_limit > pool.block_gas_limit THEN "ExceedsBlockGasLimit"
    ELSE IF tx.nonce < AcctNonce(st, tx.caller) THEN "NonceTooLow"
    ELSE IF UpfrontCost(tx) > AcctBalance(st, tx.caller) THEN "InsufficientFunds"
    ELSE "None"

MemPoolAdd(pool, st, tx) ==
    Repartition(pool, st, pool.pending \o pool.future \o << tx >>)

(***************************************************************************)
(* Blocks and the local blockchain store (section 4.4).  blocks[i] has     *)
(* number i - 1; diffs[i] is the state diff stored with it.                *)
(***************************************************************************)
TxHashes(txs) == [i \in 1..Len(txs) |-> txs[i].hash]

BlockHash(b) ==
    << "block", b.number, b.parent_hash, b.timestamp, b.beneficiary,
       b.base_fee_per_gas, b.prevrandao, TxHashes(b.transactions) >>

Sealed(b) == [b EXCEPT !.hash = BlockHash(b)]

LastBlock(chain) == chain.blocks[Len(chain.blocks)]

LastBlockNumber(chain) == Len(chain.blocks) - 1

BlockByNumber(chain, n) ==
    IF n \in 0..LastBlockNumber(chain) THEN Some(chain.blocks[n + 1]) ELSE None

BlockByHash(chain, h) ==
    LET found == {i \in 1..Len(chain.blocks) : chain.blocks[i].hash = h}
    IN  IF found = {} THEN None ELSE Some(chain.blocks[CHOOSE i \in found : TRUE])

\* block_by_transaction_hash, receipt_by_transaction_hash: the block of the
\* chain that holds the transaction and the transaction's place in it.
BlockByTransactionHash(chain, h) ==
    LET found == {i \in 1..Len(chain.blocks) :
                    \E k \in 1..Len(chain.blocks[i].transactions) :
                        chain.blocks[i].transactions[k].hash = h}
    IN  IF found = {} THEN None ELSE Some(chain.blocks[CHOOSE i \in found : TRUE])

ReceiptByTransactionHash(chain, h) ==
    LET block_opt == BlockByTransactionHash(chain, h)
    IN  IF ~IsSome(block_opt) THEN None
        ELSE LET block == Unwrap(block_opt)
                 index == CHOOSE k \in 1..Len(block.transactions) :
                              block.transactions[k].hash = h
             IN  Some([transaction_hash |-> h, block_hash |-> block.hash,
                       block_number |-> block.number, transaction_index |-> index - 1])

\* insert_block: fails cleanly unless the block extends the tip.
InsertBlockOk(chain, block) ==
    /\ block.number = LastBlockNumber(chain) + 1
    /\ block.parent_hash = LastBlock(chain).hash

InsertBlock(chain, block, diff) ==
    [chain EXCEPT !.blocks = Append(@, block), !.diffs = Append(@, diff)]

\* revert_to_block(n): truncates every block with number > n.
RevertToBlockOk(chain, n) == n <= LastBlockNumber(chain)

RevertToBlock(chain, n) ==
    [chain EXCEPT !.blocks = SubSeq(@, 1, n + 1), !.diffs = SubSeq(@, 1, n + 1)]

\* Faulty variant of StateUpTo: only the override at height n itself is layered.
RECURSIVE StateUpToOwnOverride(_, _, _)
StateUpToOwnOverride(chain, n, overrides) ==
    LET below == IF n = 0 THEN EmptyState ELSE StateUpToOwnOverride(chain, n - 1, EmptyMap)
        canon == CommitDiff(below, chain.diffs[n + 1])
    IN  IF n \in DOMAIN overrides THEN CommitDiff(canon, overrides[n].diff) ELSE canon

\* state_at_block_number(n, overrides): the diffs of blocks 0..n in order,
\* each followed by the irregular override at its height.
RECURSIVE StateUpTo(_, _, _)
StateUpTo(chain, n, overrides) ==
    LET below == IF n = 0 THEN EmptyState ELSE StateUpTo(chain, n - 1, overrides)
        canon == CommitDiff(below, chain.diffs[n + 1])
    IN  IF n \in DOMAIN overrides THEN CommitDiff(canon, overrides[n].diff) ELSE canon

StateAtBlockNumber(chain, n, overrides) == StateUpTo(chain, n, overrides)

(***************************************************************************)
(* Block producer (section 4.6).                                           *)
(***************************************************************************)
\* One transaction applied to the evolving state: the caller pays the
\* upfront cost and its nonce advances, the beneficiary earns the tip.
TxApplicable(st, tx, base_fee) ==
    /\ tx.nonce = AcctNonce(st, tx.caller)
    /\ UpfrontCost(tx) <= AcctBalance(st, tx.caller)
    /\ tx.gas_price >= base_fee

Credit(st, a, amount) ==
    LET add == ModifierOf(Some(AcctBalance(st, a) + amount), None, None)
    IN  ModifyAccount(st, a, add, AccountInfo(amount, 0, None)).state

ApplyTx(st, tx, coinbase, base_fee) ==
    LET pay == ModifierOf(Some(AcctBalance(st, tx.caller) - UpfrontCost(tx)),
                          Some(AcctNonce(st, tx.caller) + 1), None)
        paid == ModifyAccount(st, tx.caller, pay, AccountInfo(0, 0, None)).state
    IN  Credit(paid, coinbase, tx.gas_limit * (tx.gas_price - base_fee))

\* Drains the pending queue in FIFO order; a transaction that cannot run is skipped.
RECURSIVE Drain(_, _, _, _, _)
Drain(queue, acc, coinbase, base_fee, touched) ==
    IF queue = << >> THEN [state |-> acc.state, included |-> acc.included, touched |-> touched]
    ELSE LET tx == Head(queue)
         IN  IF TxApplicable(acc.state, tx, base_fee)
             THEN Drain(Tail(queue),
                        [state |-> ApplyTx(acc.state, tx, coinbase, base_fee),
                         included |-> Append(acc.included, tx)],
                        coinbase, base_fee, touched \cup {tx.caller, coinbase})
             ELSE Drain(Tail(queue), acc, coinbase, base_fee, touched)

\* mine_block of the block producer: the block on top of the tip, the state
\* after it and the diff of the accounts it touched.
ProduceBlock(chain, st, pool, timestamp, coinbase, base_fee_opt, prevrandao) ==
    LET parent == LastBlock(chain)
        base_fee == IF IsSome(base_fee_opt) THEN Unwrap(base_fee_opt)
                    ELSE parent.base_fee_per_gas
        run == Drain(pool.pending, [state |-> st, included |-> << >>], coinbase, base_fee, {})
        block == Sealed([number |-> parent.number + 1,
                         parent_hash |-> parent.hash,
                         timestamp |-> timestamp,
                         beneficiary |-> coinbase,
                         base_fee_per_gas |-> base_fee,
                         prevrandao |-> prevrandao,
                         transactions |-> run.included,
                         hash |-> None])
    IN  [block |-> block,
         state |-> run.state,
         state_diff |-> [a \in run.touched |->
                            [info |-> Unwrap(Basic(run.state, a)), slot |-> None]]]

(***************************************************************************)
(* Filter (section 4.10): kind, subscription flag and buffered events.     *)
(***************************************************************************)
NewPendingTransactions == "NewPendingTransactions"

NewBlocks == "NewBlocks"

Logs == "Logs"

FilterNew(kind, is_subscription) ==
    [kind |-> kind, is_subscription |-> is_subscription, events |-> << >>]

FilteredEvents(kind, events) == [kind |-> kind, events |-> events]

\* take_events: empties the buffer and returns its prior contents.
TakeEventsReturned(filter) == FilteredEvents(filter.kind, filter.events)

TakeEventsFilter(filter) == [filter EXCEPT !.events = << >>]

\* take_log_events: as take_events for a Logs filter, nothing otherwise.
TakeLogEventsReturned(filter) == IF filter.kind = Logs THEN Some(filter.events) ELSE None

TakeLogEventsFilter(filter) == IF filter.kind = Logs THEN [filter EXCEPT !.events = << >>] ELSE filter

(***************************************************************************)
(* ProviderData.                                                           *)
(***************************************************************************)
VARIABLES
    blockchain,                        \* the blockchain store
    state,                             \* the current world state
    irregular_state,                   \* block number -> StateOverride
    mem_pool,
    beneficiary,
    prev_randao_generator,
    block_time_offset_seconds,
    next_block_base_fee_per_gas,       \* Option
    next_block_timestamp,              \* Option
    next_snapshot_id,
    snapshots,                         \* id -> Snapshot
    allow_blocks_with_same_timestamp,
    is_auto_mining,                    \* whether the miner mines automatically
    filters,                           \* id -> Filter
    last_filter_id,
    impersonated_accounts,
    now,                               \* the wall clock (SystemTime and Instant), in seconds
    last,                              \* the last operation: name, argument, result, values before it
    captured,                          \* history: id -> engine at make_snapshot(id), for live snapshots
    steps,                             \* number of steps the behaviour may still take
    history                            \* ids returned by make_snapshot and next_filter_id, in order; snapshot ids a revert removed;
                                       \* per filter id the hashes added since its creation and those get_filter_changes returned

vars == << blockchain, state, irregular_state, mem_pool, beneficiary, prev_randao_generator,
           block_time_offset_seconds, next_block_base_fee_per_gas, next_block_timestamp,
           next_snapshot_id, snapshots, allow_blocks_with_same_timestamp, is_auto_mining, filters,
           last_filter_id, impersonated_accounts, now, last, captured, steps, history >>

\* min_gas_price: U256::from(1)
min_gas_price == 1

\* Every field of the engine, as one value.
Engine ==
    [blockchain |-> blockchain,
     state |-> state,
     irregular_state |-> irregular_state,
     mem_pool |-> mem_pool,
     beneficiary |-> beneficiary,
     prev_randao_generator |-> prev_randao_generator,
     block_time_offset_seconds |-> block_time_offset_seconds,
     next_block_base_fee_per_gas |-> next_block_base_fee_per_gas,
     next_block_timestamp |-> next_block_timestamp,
     next_snapshot_id |-> next_snapshot_id,
     snapshots |-> snapshots,
     filters |-> filters,
     last_filter_id |-> last_filter_id,
     impersonated_accounts |-> impersonated_accounts,
     is_auto_mining |-> is_auto_mining]

Ok(v) == [tag |-> "Ok", val |-> v]

Err(e) == [tag |-> "Err", err |-> e]

Panic == [tag |-> "Panic"]

Did(op, arg, res, pre) == [op |-> op, arg |-> arg, res |-> res, pre |-> pre]

\* A panic ends the engine's life: no operation runs after it.
Alive == last.res.tag # "Panic"

\* Every step begins on a live engine and counts against the bound.
Begin == Alive /\ steps > 0 /\ steps' = steps - 1

\* What an overflowing u64 operation does: wraps, or panics when the build
\* checks overflow.
Overflow(overflows) == IF overflows THEN {"wrap", "panic"} ELSE {"exact"}

(***************************************************************************)
(* Construction: ProviderData::new on a local blockchain.                  *)
(***************************************************************************)
GenesisAccounts == [a \in {"L"} |-> [info |-> AccountInfo(4, 0, None), slot |-> None]]

GenesisBlock(timestamp) ==
    Sealed([number |-> 0, parent_hash |-> None, timestamp |-> timestamp, beneficiary |-> "zero",
            base_fee_per_gas |-> 0, prevrandao |-> Some(HashStep(100)),
            transactions |-> << >>, hash |-> None])

LocalBlockchainNew(spec_id, timestamp) ==
    [spec_id |-> spec_id, blocks |-> << GenesisBlock(timestamp) >>, diffs |-> << GenesisAccounts >>]

\* initial_date: None, or a date not after the clock (else InvalidInitialDate).
InitialDates(clock) == {None} \cup {Some(d) : d \in {0} \cap 0..clock}

\* ProviderData::new; the start of the clock and the number of steps are the
\* exploration's.
InitWith(clock, budget) ==
    /\ now = clock
    /\ \E initial_date \in InitialDates(now), spec_id \in SpecIds :
         /\ blockchain = LocalBlockchainNew(spec_id,
                            IF IsSome(initial_date) THEN Unwrap(initial_date) ELSE now)
         /\ block_time_offset_seconds =
                IF IsSome(initial_date) THEN now - Unwrap(initial_date) ELSE 0
    /\ state = StateAtBlockNumber(blockchain, 0, EmptyMap)
    /\ irregular_state = EmptyMap
    /\ mem_pool = MemPoolNew(30)
    /\ beneficiary = "X"
    /\ prev_randao_generator = RandomSeed
    /\ next_block_base_fee_per_gas = None
    /\ next_block_timestamp = None
    /\ next_snapshot_id = 1
    /\ snapshots = EmptyMap
    /\ allow_blocks_with_same_timestamp \in BOOLEAN
    /\ is_auto_mining = FALSE
    /\ filters = EmptyMap
    /\ last_filter_id = 0
    /\ impersonated_accounts = {}
    /\ last = Did("new", None, Ok(None), None)
    /\ captured = EmptyMap
    /\ steps = budget
    /\ history = [snapshot_ids |-> << >>, filter_ids |-> << >>, spent |-> {},
                  added |-> EmptyMap, delivered |-> EmptyMap]

\* The wall clock advances by one second.
Tick ==
    /\ Begin
    /\ now' = now + 1
    /\ UNCHANGED << blockchain, state, irregular_state, mem_pool, beneficiary,
                    prev_randao_generator, block_time_offset_seconds,
                    next_block_base_fee_per_gas, next_block_timestamp, next_snapshot_id,
                    snapshots, allow_blocks_with_same_timestamp, is_auto_mining, filters, last_filter_id,
                    impersonated_accounts, last, captured, history >>

(***************************************************************************)
(* Snapshots (section 4.9).                                                *)
(***************************************************************************)
\* Ids a caller tries: every id handed out so far and the next one.
SnapshotIds == 1..next_snapshot_id

\* Faulty variant of SnapshotNow: the snapshot takes an empty pool instead of the
\* engine's.
SnapshotNowWithoutMemPool ==
    [block_number |-> LastBlockNumber(blockchain),
     block_time_offset_seconds |-> block_time_offset_seconds,
     coinbase |-> beneficiary,
     irregular_state |-> irregular_state,
     mem_pool |-> MemPoolNew(mem_pool.block_gas_limit),
     next_block_base_fee_per_gas |-> next_block_base_fee_per_gas,
     next_block_timestamp |-> next_block_timestamp,
     prev_randao_generator |-> prev_randao_generator,
     state |-> state,
     time |-> now]

\* Snapshot { block_number, block_time_offset_seconds, coinbase, ... , time }
SnapshotNow ==
    [block_number |-> LastBlockNumber(blockchain),
     block_time_offset_seconds |-> block_time_offset_seconds,
     coinbase |-> beneficiary,
     irregular_state |-> irregular_state,
     mem_pool |-> mem_pool,
     next_block_base_fee_per_gas |-> next_block_base_fee_per_gas,
     next_block_timestamp |-> next_block_timestamp,
     prev_randao_generator |-> prev_randao_generator,
     state |-> state,
     time |-> now]

\* Faulty variant of SnapshotIdAfter: the counter does not advance.
SnapshotIdStuck(id) == id

\* self.next_snapshot_id += 1
SnapshotIdAfter(id) == id + 1

MakeSnapshot ==
    /\ Begin
    /\ LET id == next_snapshot_id
       IN  /\ next_snapshot_id' = SnapshotIdAfter(id)
           /\ snapshots' = Put(snapshots, id, SnapshotNow)
           /\ last' = Did("make_snapshot", None, Ok(id), [engine |-> Engine])
           /\ captured' = Put(captured, id, [engine |-> Engine, time |-> now])
           /\ history' = [history EXCEPT !.snapshot_ids = Append(@, id)]
    /\ UNCHANGED << blockchain, state, irregular_state, mem_pool, beneficiary,
                    prev_randao_generator, block_time_offset_seconds,
                    next_block_base_fee_per_gas, next_block_timestamp,
                    allow_blocks_with_same_timestamp, is_auto_mining, filters, last_filter_id,
                    impersonated_accounts, now >>

\* Faulty variants of SplitOffKept: only the id itself leaves the registry;
\* nothing leaves the registry.
SplitOffOnlyId(registry, snapshot_id) == Restrict(registry, DOMAIN registry \ {snapshot_id})

SplitOffNothing(registry, snapshot_id) == registry

\* self.snapshots.split_off(&snapshot_id): what stays in the registry.
SplitOffKept(registry, snapshot_id) == Restrict(registry, {k \in DOMAIN registry : k < snapshot_id})

\* Faulty variant of RevertedOffset: the time since the snapshot is dropped.
RevertedOffsetWithoutElapsed(snapshot) == snapshot.block_time_offset_seconds

\* Instant::now().duration_since(time).as_secs()
DurationSinceSnapshot(snapshot) == now - snapshot.time

\* block_time_offset_seconds + duration_since_snapshot.as_secs()
RevertedOffset(snapshot) ==
    WrapAdd(snapshot.block_time_offset_seconds, DurationSinceSnapshot(snapshot))

\* History: the ids a successful revert_to_snapshot(snapshot_id) uses up, the
\* id itself and every larger id in the registry.
SpentBy(snapshot_id) ==
    IF snapshot_id \in DOMAIN snapshots THEN {k \in DOMAIN snapshots : k >= snapshot_id} ELSE {}

\* The registry and the clock at the call, the engine captured for the id, and, when the
\* call directly follows the make_snapshot that returned the id, the engine
\* before that make_snapshot.
RevertPre(snapshot_id) ==
    [snapshots |-> snapshots,
     spent |-> history.spent,
     captured |-> IF snapshot_id \in DOMAIN captured THEN Some(captured[snapshot_id]) ELSE None,
     before_make |-> IF last.op = "make_snapshot" /\ last.res = Ok(snapshot_id)
                     THEN Some(last.pre.engine) ELSE None,
     engine |-> Engine,
     now |-> now]

\* Faulty variant of RevertFrame: a revert empties the filter registry.
RevertFrameClearing ==
    /\ filters' = EmptyMap
    /\ UNCHANGED << last_filter_id, impersonated_accounts, is_auto_mining >>

\* What revert_to_snapshot never assigns and a Snapshot does not hold: the
\* filter registry, the impersonated accounts and the auto-mining flag.
RevertFrame == UNCHANGED << filters, last_filter_id, impersonated_accounts, is_auto_mining >>

RevertToSnapshot(snapshot_id) ==
    /\ Begin
    /\ LET found == snapshot_id \in DOMAIN snapshots
           snapshot == snapshots[snapshot_id]
           kept == SplitOffKept(snapshots, snapshot_id)
       IN  /\ snapshots' = kept
           /\ captured' = Restrict(captured, DOMAIN kept)
           /\ history' = [history EXCEPT !.spent = @ \cup SpentBy(snapshot_id)]
           /\ IF ~found
              THEN /\ last' = Did("revert_to_snapshot", snapshot_id, Ok(FALSE), RevertPre(snapshot_id))
                   /\ UNCHANGED << blockchain, state, irregular_state, mem_pool, beneficiary,
                                   prev_randao_generator, block_time_offset_seconds,
                                   next_block_base_fee_per_gas, next_block_timestamp >>
              ELSE \E outcome \in Overflow(AddOverflows(snapshot.block_time_offset_seconds,
                                                        DurationSinceSnapshot(snapshot))) :
                   IF outcome = "panic"
                   THEN /\ last' = Did("revert_to_snapshot", snapshot_id, Panic, RevertPre(snapshot_id))
                        /\ UNCHANGED << blockchain, state, irregular_state, mem_pool, beneficiary,
                                        prev_randao_generator, block_time_offset_seconds,
                                        next_block_base_fee_per_gas, next_block_timestamp >>
                   ELSE IF ~RevertToBlockOk(blockchain, snapshot.block_number)
                   THEN \* .expect("Snapshotted block should exist")
                        /\ last' = Did("revert_to_snapshot", snapshot_id, Panic, RevertPre(snapshot_id))
                        /\ block_time_offset_seconds' = RevertedOffset(snapshot)
                        /\ beneficiary' = snapshot.coinbase
                        /\ UNCHANGED << blockchain, state, irregular_state, mem_pool,
                                        prev_randao_generator, next_block_base_fee_per_gas,
                                        next_block_timestamp >>
                   ELSE /\ last' = Did("revert_to_snapshot", snapshot_id, Ok(TRUE), RevertPre(snapshot_id))
                        /\ block_time_offset_seconds' = RevertedOffset(snapshot)
                        /\ beneficiary' = snapshot.coinbase
                        /\ blockchain' = RevertToBlock(blockchain, snapshot.block_number)
                        /\ irregular_state' = snapshot.irregular_state
                        /\ mem_pool' = snapshot.mem_pool
                        /\ next_block_base_fee_per_gas' = snapshot.next_block_base_fee_per_gas
                        /\ next_block_timestamp' = snapshot.next_block_timestamp
                        /\ prev_randao_generator' = snapshot.prev_randao_generator
                        /\ state' = snapshot.state
    /\ RevertFrame
    /\ UNCHANGED << next_snapshot_id, allow_blocks_with_same_timestamp, now >>

(***************************************************************************)
(* Block production (section 4.7).                                         *)
(***************************************************************************)
Timestamps == {1, 3}

TimestampArgs == {None} \cup {Some(t) : t \in Timestamps}

\* Faulty variant of TimestampCandidate: a supplied timestamp equal to the
\* tip's is rejected too.
TimestampCandidateStrict(timestamp) ==
    LET previous == LastBlock(blockchain).timestamp
    IN  IF IsSome(timestamp)
        THEN IF Unwrap(timestamp) <= previous
             THEN Err([name |-> "TimestampLowerThanPrevious",
                       proposed |-> Unwrap(timestamp), previous |-> previous])
             ELSE Ok([block_timestamp |-> Unwrap(timestamp),
                      new_offset |-> Some(WrapSub(Unwrap(timestamp), now)),
                      overflows |-> SubOverflows(Unwrap(timestamp), now)])
        ELSE IF IsSome(next_block_timestamp)
        THEN Ok([block_timestamp |-> Unwrap(next_block_timestamp),
                 new_offset |-> Some(WrapSub(Unwrap(next_block_timestamp), now)),
                 overflows |-> SubOverflows(Unwrap(next_block_timestamp), now)])
        ELSE Ok([block_timestamp |-> WrapAdd(now, block_time_offset_seconds),
                 new_offset |-> None,
                 overflows |-> AddOverflows(now, block_time_offset_seconds)])

\* next_block_timestamp(timestamp) up to the same-timestamp adjustment:
\* an error, or the candidate, the new offset and whether the u64
\* subtraction or addition that computes them overflows.
TimestampCandidate(timestamp) ==
    LET previous == LastBlock(blockchain).timestamp
    IN  IF IsSome(timestamp)
        THEN IF Unwrap(timestamp) < previous
             THEN Err([name |-> "TimestampLowerThanPrevious",
                       proposed |-> Unwrap(timestamp), previous |-> previous])
             ELSE Ok([block_timestamp |-> Unwrap(timestamp),
                      new_offset |-> Some(WrapSub(Unwrap(timestamp), now)),
                      overflows |-> SubOverflows(Unwrap(timestamp), now)])
        ELSE IF IsSome(next_block_timestamp)
        THEN Ok([block_timestamp |-> Unwrap(next_block_timestamp),
                 new_offset |-> Some(WrapSub(Unwrap(next_block_timestamp), now)),
                 overflows |-> SubOverflows(Unwrap(next_block_timestamp), now)])
        ELSE Ok([block_timestamp |-> WrapAdd(now, block_time_offset_seconds),
                 new_offset |-> None,
                 overflows |-> AddOverflows(now, block_time_offset_seconds)])

\* timestamp_needs_increase
TimestampNeedsIncrease(block_timestamp) ==
    /\ block_timestamp = LastBlock(blockchain).timestamp
    /\ ~allow_blocks_with_same_timestamp

\* next_block_timestamp(timestamp): Err, or Ok of (block_timestamp, new_offset)
\* with the overflow flag of the arithmetic on the way.
NextBlockTimestamp(timestamp) ==
    LET c == TimestampCandidate(timestamp)
    IN  IF c.tag = "Err" THEN c
        ELSE IF TimestampNeedsIncrease(c.val.block_timestamp)
        THEN Ok([c.val EXCEPT !.block_timestamp = WrapAdd(@, 1),
                              !.overflows = @ \/ AddOverflows(c.val.block_timestamp, 1)])
        ELSE c

\* The prevrandao of a committed block and the generator after drawing it.
CommitPrevrandao ==
    IF AtLeastMerge(blockchain.spec_id) THEN Some(GenNextValue(prev_randao_generator)) ELSE None

GeneratorAfterCommit ==
    IF AtLeastMerge(blockchain.spec_id) THEN GenNextValue(prev_randao_generator)
    ELSE prev_randao_generator

\* The prevrandao of a pending block: the generator's seed(), not advanced.
PendingPrevrandao ==
    IF AtLeastMerge(blockchain.spec_id) THEN Some(prev_randao_generator) ELSE None

\* self.mine_block(timestamp, prevrandao)
MineBlock(timestamp, prevrandao) ==
    ProduceBlock(blockchain, state, mem_pool, timestamp, beneficiary,
                 next_block_base_fee_per_gas, prevrandao)

\* Faulty variant of CommittedChain: the mined block is not inserted.
CommittedChainWithoutBlock(result) == blockchain

\* self.blockchain.insert_block(result.block, result.state_diff)
CommittedChain(result) == InsertBlock(blockchain, result.block, result.state_diff)

\* The collaborator whose call returns an error during a commit: the block
\* producer (line 377), insert_block (389-392) or mem_pool.update (394-396).
Faults == {"none", "mine_block", "insert_block", "mem_pool.update"}

\* mine_and_commit_block(timestamp), with the fallible call that fails, if any.
\* Each `?` returns at its own line, with the writes made before it in place.
MineAndCommitBlockWith(timestamp, fault) ==
    /\ Begin
    /\ LET r == NextBlockTimestamp(timestamp)
           pre == [tip |-> LastBlock(blockchain), number |-> LastBlockNumber(blockchain),
                   now |-> now, offset |-> block_time_offset_seconds,
                   armed |-> next_block_timestamp, generator |-> prev_randao_generator,
                   pending_prevrandao |-> PendingPrevrandao]
           failed == [tip |-> LastBlock(blockchain), number |-> LastBlockNumber(blockchain),
                      engine |-> Engine]
           op == "mine_and_commit_block"
       IN  IF r.tag = "Err"
           THEN /\ last' = Did(op, timestamp, r, failed)
                /\ UNCHANGED << blockchain, state, mem_pool, prev_randao_generator,
                                block_time_offset_seconds, next_block_base_fee_per_gas,
                                next_block_timestamp >>
           ELSE \E outcome \in Overflow(r.val.overflows) :
                IF outcome = "panic"
                THEN /\ last' = Did(op, timestamp, Panic, pre)
                     /\ UNCHANGED << blockchain, state, mem_pool, prev_randao_generator,
                                     block_time_offset_seconds, next_block_base_fee_per_gas,
                                     next_block_timestamp >>
                ELSE LET result == MineBlock(r.val.block_timestamp, CommitPrevrandao)
                     IN  /\ prev_randao_generator' = GeneratorAfterCommit
                         /\ IF fault = "mine_block"
                            THEN /\ last' = Did(op, timestamp, Err([name |-> "MineBlock"]), failed)
                                 /\ UNCHANGED << blockchain, state, mem_pool,
                                                 block_time_offset_seconds,
                                                 next_block_base_fee_per_gas,
                                                 next_block_timestamp >>
                            ELSE /\ block_time_offset_seconds' =
                                        IF IsSome(r.val.new_offset) THEN Unwrap(r.val.new_offset)
                                        ELSE block_time_offset_seconds
                                 /\ next_block_base_fee_per_gas' = None
                                 /\ next_block_timestamp' = None
                                 /\ IF fault = "insert_block" \/ ~InsertBlockOk(blockchain, result.block)
                                    THEN /\ last' = Did(op, timestamp,
                                                        Err([name |-> "Blockchain"]), failed)
                                         /\ UNCHANGED << blockchain, state, mem_pool >>
                                    ELSE /\ blockchain' = CommittedChain(result)
                                         /\ IF fault = "mem_pool.update"
                                            THEN /\ last' = Did(op, timestamp,
                                                                Err([name |-> "MemPoolUpdate"]),
                                                                failed)
                                                 /\ UNCHANGED << state, mem_pool >>
                                            ELSE /\ mem_pool' = MemPoolUpdate(mem_pool, result.state)
                                                 /\ state' = result.state
                                                 /\ last' = Did(op, timestamp,
                                                                Ok(result.block), pre)
    /\ UNCHANGED << irregular_state, beneficiary, next_snapshot_id, snapshots,
                    allow_blocks_with_same_timestamp, is_auto_mining, filters, last_filter_id,
                    impersonated_accounts, now, captured, history >>

\* mine_and_commit_block(timestamp) when no collaborator fails.
MineAndCommitBlock(timestamp) == MineAndCommitBlockWith(timestamp, "none")

\* Faulty variant of MinePendingBlock: the prevrandao is drawn with next_value().
MinePendingBlockDrawing ==
    /\ Begin
    /\ LET r == NextBlockTimestamp(None)
       IN  /\ prev_randao_generator' = GeneratorAfterCommit
           /\ last' = Did("mine_pending_block", None,
                          Ok(MineBlock(r.val.block_timestamp, CommitPrevrandao).block),
                          [engine |-> Engine, now |-> now])
    /\ UNCHANGED << blockchain, state, irregular_state, mem_pool, beneficiary,
                    block_time_offset_seconds,
                    next_block_base_fee_per_gas, next_block_timestamp, next_snapshot_id,
                    snapshots, allow_blocks_with_same_timestamp, is_auto_mining, filters, last_filter_id,
                    impersonated_accounts, now, captured, history >>

\* mine_pending_block(&self): next_block_timestamp(None), the generator's
\* seed() as prevrandao, then the block producer; nothing is written.
MinePendingBlock ==
    /\ Begin
    /\ LET r == NextBlockTimestamp(None)
       IN  \E outcome \in Overflow(r.val.overflows) :
                last' = Did("mine_pending_block", None,
                            IF outcome = "panic" THEN Panic
                            ELSE Ok(MineBlock(r.val.block_timestamp, PendingPrevrandao).block),
                            [engine |-> Engine, now |-> now])
    /\ UNCHANGED << blockchain, state, irregular_state, mem_pool, beneficiary,
                    prev_randao_generator, block_time_offset_seconds,
                    next_block_base_fee_per_gas, next_block_timestamp, next_snapshot_id,
                    snapshots, allow_blocks_with_same_timestamp, is_auto_mining, filters, last_filter_id,
                    impersonated_accounts, now, captured, history >>

\* Faulty variant of SetNextBlockTimestampResult: a timestamp equal to the
\* tip's is accepted when blocks with the same timestamp are allowed.
SetNextBlockTimestampResultSameAllowed(timestamp) ==
    LET previous == LastBlock(blockchain).timestamp
    IN  IF timestamp < previous
        THEN Err([name |-> "TimestampLowerThanPrevious",
                  proposed |-> timestamp, previous |-> previous])
        ELSE IF timestamp = previous /\ ~allow_blocks_with_same_timestamp
        THEN Err([name |-> "TimestampEqualsPrevious", proposed |-> timestamp])
        ELSE Ok(timestamp)

\* match timestamp.cmp(&latest_block_header.timestamp)
SetNextBlockTimestampResult(timestamp) ==
    LET previous == LastBlock(blockchain).timestamp
    IN  IF timestamp < previous
        THEN Err([name |-> "TimestampLowerThanPrevious",
                  proposed |-> timestamp, previous |-> previous])
        ELSE IF timestamp = previous
        THEN Err([name |-> "TimestampEqualsPrevious", proposed |-> timestamp])
        ELSE Ok(timestamp)

\* set_next_block_timestamp(timestamp)
SetNextBlockTimestamp(timestamp) ==
    /\ Begin
    /\ LET r == SetNextBlockTimestampResult(timestamp)
       IN  /\ last' = Did("set_next_block_timestamp", timestamp, r,
                          [previous |-> LastBlock(blockchain).timestamp,
                           armed |-> next_block_timestamp])
           /\ next_block_timestamp' = IF r.tag = "Ok" THEN Some(timestamp)
                                      ELSE next_block_timestamp
    /\ UNCHANGED << blockchain, state, irregular_state, mem_pool, beneficiary,
                    prev_randao_generator, block_time_offset_seconds,
                    next_block_base_fee_per_gas, next_snapshot_id, snapshots,
                    allow_blocks_with_same_timestamp, is_auto_mining, filters, last_filter_id,
                    impersonated_accounts, now, captured, history >>

\* Increments handed to increase_block_time.
Increments == {1}

\* increase_block_time(increment): self.block_time_offset_seconds += increment
IncreaseBlockTime(increment) ==
    /\ Begin
    /\ \E outcome \in Overflow(AddOverflows(block_time_offset_seconds, increment)) :
         IF outcome = "panic"
         THEN /\ last' = Did("increase_block_time", increment, Panic, None)
              /\ UNCHANGED block_time_offset_seconds
         ELSE /\ block_time_offset_seconds' = WrapAdd(block_time_offset_seconds, increment)
              /\ last' = Did("increase_block_time", increment,
                             Ok(WrapAdd(block_time_offset_seconds, increment)), None)
    /\ UNCHANGED << blockchain, state, irregular_state, mem_pool, beneficiary,
                    prev_randao_generator, next_block_base_fee_per_gas, next_block_timestamp,
                    next_snapshot_id, snapshots, allow_blocks_with_same_timestamp, is_auto_mining, filters,
                    last_filter_id, impersonated_accounts, now, captured, history >>

\* set_auto_mining(enabled)
SetAutoMining(enabled) ==
    /\ Begin
    /\ is_auto_mining' = enabled
    /\ last' = Did("set_auto_mining", enabled, Ok(None), None)
    /\ UNCHANGED << blockchain, state, irregular_state, mem_pool, beneficiary,
                    prev_randao_generator, block_time_offset_seconds,
                    next_block_base_fee_per_gas, next_block_timestamp, next_snapshot_id,
                    snapshots, allow_blocks_with_same_timestamp, filters, last_filter_id,
                    impersonated_accounts, now, captured, history >>

SetCoinbase(coinbase) ==
    /\ Begin
    /\ beneficiary' = coinbase
    /\ last' = Did("set_coinbase", coinbase, Ok(None), None)
    /\ UNCHANGED << blockchain, state, irregular_state, mem_pool, prev_randao_generator,
                    block_time_offset_seconds, next_block_base_fee_per_gas,
                    next_block_timestamp, next_snapshot_id, snapshots,
                    allow_blocks_with_same_timestamp, is_auto_mining, filters, last_filter_id,
                    impersonated_accounts, now, captured, history >>

SetNextBlockBaseFeePerGas(base_fee_per_gas) ==
    /\ Begin
    /\ next_block_base_fee_per_gas' = Some(base_fee_per_gas)
    /\ last' = Did("set_next_block_base_fee_per_gas", base_fee_per_gas, Ok(None), None)
    /\ UNCHANGED << blockchain, state, irregular_state, mem_pool, beneficiary,
                    prev_randao_generator, block_time_offset_seconds, next_block_timestamp,
                    next_snapshot_id, snapshots, allow_blocks_with_same_timestamp, is_auto_mining, filters,
                    last_filter_id, impersonated_accounts, now, captured, history >>

SetNextPrevRandao(prev_randao) ==
    /\ Begin
    /\ prev_randao_generator' = GenSetNext(prev_randao_generator, prev_randao)
    /\ last' = Did("set_next_prev_randao", prev_randao, Ok(None), None)
    /\ UNCHANGED << blockchain, state, irregular_state, mem_pool, beneficiary,
                    block_time_offset_seconds, next_block_base_fee_per_gas,
                    next_block_timestamp, next_snapshot_id, snapshots,
                    allow_blocks_with_same_timestamp, is_auto_mining, filters, last_filter_id,
                    impersonated_accounts, now, captured, history >>

(***************************************************************************)
(* State-mutation operations (section 4.12).                               *)
(***************************************************************************)
\* irregular_state.state_override_at_block_number(n).or_insert_with(..).diff
\* changed by `change`.
IrregularEntry(root) == OverrideAt(irregular_state, LastBlockNumber(blockchain), root)

IrregularWith(entry) == Put(irregular_state, LastBlockNumber(blockchain), entry)

SetBalance(address, balance) ==
    /\ Begin
    /\ LET set == ModifierOf(Some(balance), None, None)
           m == ModifyAccount(state, address, set, AccountInfo(balance, 0, None))
           entry == IrregularEntry(StateRoot(m.state))
       IN  /\ state' = m.state
           /\ irregular_state' =
                IrregularWith([entry EXCEPT !.diff = ApplyAccountChange(@, address, m.info)])
           /\ mem_pool' = MemPoolUpdate(mem_pool, m.state)
    /\ last' = Did("set_balance", << address, balance >>, Ok(None),
                   [mem_pool |-> mem_pool, irregular |-> irregular_state])
    /\ UNCHANGED << blockchain, beneficiary, prev_randao_generator, block_time_offset_seconds,
                    next_block_base_fee_per_gas, next_block_timestamp, next_snapshot_id,
                    snapshots, allow_blocks_with_same_timestamp, is_auto_mining, filters, last_filter_id,
                    impersonated_accounts, now, captured, history >>

SetNonce(address, nonce) ==
    /\ Begin
    /\ LET set == ModifierOf(None, Some(nonce), None)
           m == ModifyAccount(state, address, set, AccountInfo(0, nonce, None))
           entry == IrregularEntry(StateRoot(m.state))
       IN  /\ state' = m.state
           /\ irregular_state' =
                IrregularWith([entry EXCEPT !.diff = ApplyAccountChange(@, address, m.info)])
           /\ mem_pool' = MemPoolUpdate(mem_pool, m.state)
    /\ last' = Did("set_nonce", << address, nonce >>, Ok(None),
                   [mem_pool |-> mem_pool, nonce |-> AcctNonce(state, address),
                    irregular |-> irregular_state])
    /\ UNCHANGED << blockchain, beneficiary, prev_randao_generator, block_time_offset_seconds,
                    next_block_base_fee_per_gas, next_block_timestamp, next_snapshot_id,
                    snapshots, allow_blocks_with_same_timestamp, is_auto_mining, filters, last_filter_id,
                    impersonated_accounts, now, captured, history >>

\* Gas limits handed to set_block_gas_limit: below and above every
\* transaction's gas limit.
GasLimits == {0, 30}

\* set_block_gas_limit: mem_pool.set_block_gas_limit(&state, gas_limit), which
\* evicts what exceeds the new limit and re-validates the rest.
SetBlockGasLimit(gas_limit) ==
    /\ Begin
    /\ mem_pool' = MemPoolUpdate([mem_pool EXCEPT !.block_gas_limit = gas_limit], state)
    /\ last' = Did("set_block_gas_limit", gas_limit, Ok(None), None)
    /\ UNCHANGED << blockchain, state, irregular_state, beneficiary, prev_randao_generator,
                    block_time_offset_seconds, next_block_base_fee_per_gas,
                    next_block_timestamp, next_snapshot_id, snapshots,
                    allow_blocks_with_same_timestamp, is_auto_mining, filters, last_filter_id,
                    impersonated_accounts, now, captured, history >>

SetCode(address, code) ==
    /\ Begin
    /\ LET set == ModifierOf(None, None, Some(Some(code)))
           m == ModifyAccount(state, address, set,
                              [AccountInfo(0, 0, Some(code)) EXCEPT !.code_hash = KECCAK_EMPTY])
           \* the code was stripped from the account: re-added for the irregular state
           account_info == [m.info EXCEPT !.code = Some(code)]
           entry == IrregularEntry(StateRoot(m.state))
       IN  /\ state' = m.state
           /\ irregular_state' =
                IrregularWith([entry EXCEPT !.diff = ApplyAccountChange(@, address, account_info)])
    /\ last' = Did("set_code", << address, code >>, Ok(None), [irregular |-> irregular_state])
    /\ UNCHANGED << blockchain, mem_pool, beneficiary, prev_randao_generator,
                    block_time_offset_seconds, next_block_base_fee_per_gas,
                    next_block_timestamp, next_snapshot_id, snapshots,
                    allow_blocks_with_same_timestamp, is_auto_mining, filters, last_filter_id,
                    impersonated_accounts, now, captured, history >>

SetAccountStorageSlot(address, value) ==
    /\ Begin
    /\ LET first == StateSetSlot(state, address, value)
           second == StateSetSlot(first.state, address, value)
           old_value == second.old
           slot == StorageSlotChanged(old_value, value)
           account_info == Basic(second.state, address)
           entry == IrregularEntry(StateRoot(second.state))
       IN  /\ state' = second.state
           /\ irregular_state' =
                IrregularWith([entry EXCEPT
                                  !.diff = ApplyStorageChange(@, address, slot, account_info)])
    /\ last' = Did("set_account_storage_slot", << address, value >>, Ok(None),
                   [old |-> Storage(state, address), irregular |-> irregular_state])
    /\ UNCHANGED << blockchain, mem_pool, beneficiary, prev_randao_generator,
                    block_time_offset_seconds, next_block_base_fee_per_gas,
                    next_block_timestamp, next_snapshot_id, snapshots,
                    allow_blocks_with_same_timestamp, is_auto_mining, filters, last_filter_id,
                    impersonated_accounts, now, captured, history >>

(***************************************************************************)
(* Impersonation, signing and sending (section 4.11).                      *)
(***************************************************************************)
ImpersonateAccount(address) ==
    /\ Begin
    /\ impersonated_accounts' = impersonated_accounts \cup {address}
    /\ last' = Did("impersonate_account", address, Ok(None),
                   [accounts |-> impersonated_accounts])
    /\ UNCHANGED << blockchain, state, irregular_state, mem_pool, beneficiary,
                    prev_randao_generator, block_time_offset_seconds,
                    next_block_base_fee_per_gas, next_block_timestamp, next_snapshot_id,
                    snapshots, allow_blocks_with_same_timestamp, is_auto_mining, filters, last_filter_id,
                    now, captured, history >>

\* What stop_impersonating_account(address) finds: the set, and the set before
\* the impersonate_account(address) it directly follows, if it follows one.
StopPre(address) ==
    [accounts |-> impersonated_accounts,
     before_pair |-> IF last.op = "impersonate_account" /\ last.arg = address
                     THEN Some(last.pre.accounts) ELSE None]

\* Faulty variant of StopImpersonatingAccount: the address stays in the set.
StopImpersonatingAccountKeeping(address) ==
    /\ Begin
    /\ last' = Did("stop_impersonating_account", address,
                   Ok(address \in impersonated_accounts), StopPre(address))
    /\ UNCHANGED << blockchain, state, irregular_state, mem_pool, beneficiary,
                    prev_randao_generator, block_time_offset_seconds,
                    next_block_base_fee_per_gas, next_block_timestamp, next_snapshot_id,
                    snapshots, allow_blocks_with_same_timestamp, is_auto_mining, filters, last_filter_id,
                    impersonated_accounts, now, captured, history >>

StopImpersonatingAccount(address) ==
    /\ Begin
    /\ impersonated_accounts' = impersonated_accounts \ {address}
    /\ last' = Did("stop_impersonating_account", address,
                   Ok(address \in impersonated_accounts), StopPre(address))
    /\ UNCHANGED << blockchain, state, irregular_state, mem_pool, beneficiary,
                    prev_randao_generator, block_time_offset_seconds,
                    next_block_base_fee_per_gas, next_block_timestamp, next_snapshot_id,
                    snapshots, allow_blocks_with_same_timestamp, is_auto_mining, filters, last_filter_id,
                    now, captured, history >>

\* sign_transaction_request: the pending transaction with its caller, or UnknownAddress.
\* Faulty variant of SignTransactionRequest: impersonation is ignored.
SignTransactionRequestLocalOnly(request) ==
    IF request.caller \in local_accounts THEN Ok(request)
    ELSE Err([name |-> "UnknownAddress", address |-> request.caller])

\* The request's `from` is its caller field.  An impersonated sender is put in
\* the caller field of the fake-signed transaction (with_caller); otherwise the
\* caller is the address recovered from the signature made with the sender's
\* secret key.
SignTransactionRequest(request) ==
    LET sender == request.caller
        secret_key == << "secret key", sender >>
        signature == << "signature", secret_key >>
        recovered == signature[2][2]
    IN  IF sender \in impersonated_accounts THEN Ok([request EXCEPT !.caller = sender])
        ELSE IF sender \in local_accounts THEN Ok([request EXCEPT !.caller = recovered])
        ELSE Err([name |-> "UnknownAddress", address |-> sender])

\* Faulty variant of FiltersWithPending: the hash replaces the buffer.
FiltersWithPendingOnly(fs, transaction_hash) ==
    [id \in DOMAIN fs |->
        IF fs[id].kind = NewPendingTransactions
        THEN [fs[id] EXCEPT !.events = << transaction_hash >>] ELSE fs[id]]

\* Faulty variant of FiltersWithPending: the hash is put in front of the buffer.
FiltersWithPendingInFront(fs, transaction_hash) ==
    [id \in DOMAIN fs |->
        IF fs[id].kind = NewPendingTransactions
        THEN [fs[id] EXCEPT !.events = << transaction_hash >> \o @] ELSE fs[id]]

\* The filters after add_pending_transaction pushed the hash.
FiltersWithPending(fs, transaction_hash) ==
    [id \in DOMAIN fs |->
        IF fs[id].kind = NewPendingTransactions
        THEN [fs[id] EXCEPT !.events = Append(@, transaction_hash)] ELSE fs[id]]

\* send_transaction: sign_transaction_request, then add_pending_transaction.
SendTransaction(request) ==
    /\ Begin
    /\ LET signed == SignTransactionRequest(request)
           error == MemPoolAddError(mem_pool, state, signed.val)
           op == "send_transaction"
           pre == [filters |-> filters, mem_pool |-> mem_pool]
       IN  IF signed.tag = "Err"
           THEN /\ last' = Did(op, request, signed, pre)
                /\ UNCHANGED << mem_pool, filters, history >>
           ELSE IF error # "None"
           THEN /\ last' = Did(op, request, Err([name |-> error]), pre)
                /\ UNCHANGED << mem_pool, filters, history >>
           ELSE /\ mem_pool' = MemPoolAdd(mem_pool, state, signed.val)
                /\ filters' = FiltersWithPending(filters, request.hash)
                /\ last' = Did(op, request, Ok(request.hash), pre)
                /\ history' = [history EXCEPT
                                  !.added = [id \in DOMAIN @ |-> Append(@[id], request.hash)]]
    /\ UNCHANGED << blockchain, state, irregular_state, beneficiary, prev_randao_generator,
                    block_time_offset_seconds, next_block_base_fee_per_gas,
                    next_block_timestamp, next_snapshot_id, snapshots,
                    allow_blocks_with_same_timestamp, is_auto_mining, last_filter_id, impersonated_accounts,
                    now, captured >>

(***************************************************************************)
(* Filters (section 4.10).                                                 *)
(***************************************************************************)
\* Ids a caller tries: every id handed out so far and the next one.
FilterIds == 1..(last_filter_id + 1)

\* Faulty variant of NextFilterId: the id is taken from the number of live filters.
NextFilterIdFromCount == Cardinality(DOMAIN filters) + 1

\* next_filter_id: last_filter_id.checked_add(1)
NextFilterId == last_filter_id + 1

NewPendingTransactionFilter ==
    /\ Begin
    /\ LET filter_id == NextFilterId
       IN  /\ last_filter_id' = filter_id
           /\ filters' = Put(filters, filter_id, FilterNew(NewPendingTransactions, FALSE))
           /\ last' = Did("new_pending_transaction_filter", None, Ok(filter_id), None)
           /\ history' = [history EXCEPT !.filter_ids = Append(@, filter_id),
                                         !.added = Put(@, filter_id, << >>),
                                         !.delivered = Put(@, filter_id, << >>)]
    /\ UNCHANGED << blockchain, state, irregular_state, mem_pool, beneficiary,
                    prev_randao_generator, block_time_offset_seconds,
                    next_block_base_fee_per_gas, next_block_timestamp, next_snapshot_id,
                    snapshots, allow_blocks_with_same_timestamp, is_auto_mining, impersonated_accounts,
                    now, captured >>

\* Faulty variant of FiltersAfterTake: the filter is read, not taken from.
FiltersAfterRead(filter_id) == filters

\* self.filters.get_mut(filter_id).map(Filter::take_events)
FiltersAfterTake(filter_id) ==
    IF filter_id \in DOMAIN filters
    THEN [filters EXCEPT ![filter_id] = TakeEventsFilter(filters[filter_id])] ELSE filters

GetFilterChangesResult(filter_id) ==
    IF filter_id \in DOMAIN filters THEN Some(TakeEventsReturned(filters[filter_id])) ELSE None

GetFilterChanges(filter_id) ==
    /\ Begin
    /\ filters' = FiltersAfterTake(filter_id)
    /\ last' = Did("get_filter_changes", filter_id, Ok(GetFilterChangesResult(filter_id)),
                   [filters |-> filters, engine |-> Engine,
                    \* the call right before, when it was a get_filter_changes too
                    previous |-> IF last.op = "get_filter_changes"
                                 THEN Some([arg |-> last.arg, res |-> last.res]) ELSE None])
    /\ history' = IF filter_id \in DOMAIN filters
                  THEN [history EXCEPT !.delivered[filter_id] =
                                          @ \o Unwrap(GetFilterChangesResult(filter_id)).events]
                  ELSE history
    /\ UNCHANGED << blockchain, state, irregular_state, mem_pool, beneficiary,
                    prev_randao_generator, block_time_offset_seconds,
                    next_block_base_fee_per_gas, next_block_timestamp, next_snapshot_id,
                    snapshots, allow_blocks_with_same_timestamp, is_auto_mining, last_filter_id,
                    impersonated_accounts, now, captured >>

\* Faulty variant of GetFilterLogsResult: a missing filter is an error too.
GetFilterLogsResultStrict(filter_id) ==
    IF filter_id \in DOMAIN filters /\ IsSome(TakeLogEventsReturned(filters[filter_id]))
    THEN Ok(Some(Unwrap(TakeLogEventsReturned(filters[filter_id]))))
    ELSE Err([name |-> "InvalidFilterSubscriptionType", filter_id |-> filter_id,
              expected |-> Logs, actual |-> NewPendingTransactions])

\* get_filter_logs: Ok(None) without a filter, Ok(Some(logs)) for a Logs
\* filter, InvalidFilterSubscriptionType for any other.
GetFilterLogsResult(filter_id) ==
    IF filter_id \notin DOMAIN filters THEN Ok(None)
    ELSE IF IsSome(TakeLogEventsReturned(filters[filter_id]))
    THEN Ok(Some(Unwrap(TakeLogEventsReturned(filters[filter_id]))))
    ELSE Err([name |-> "InvalidFilterSubscriptionType", filter_id |-> filter_id,
              expected |-> Logs, actual |-> filters[filter_id].kind])

GetFilterLogs(filter_id) ==
    /\ Begin
    /\ filters' = IF filter_id \in DOMAIN filters
                  THEN [filters EXCEPT ![filter_id] = TakeLogEventsFilter(filters[filter_id])]
                  ELSE filters
    /\ last' = Did("get_filter_logs", filter_id, GetFilterLogsResult(filter_id),
                   [filters |-> filters, engine |-> Engine])
    /\ UNCHANGED << blockchain, state, irregular_state, mem_pool, beneficiary,
                    prev_randao_generator, block_time_offset_seconds,
                    next_block_base_fee_per_gas, next_block_timestamp, next_snapshot_id,
                    snapshots, allow_blocks_with_same_timestamp, is_auto_mining, last_filter_id,
                    impersonated_accounts, now, captured, history >>

\* Faulty variant of RemovesFilter: the subscription flag is not compared.
RemovesFilterOfAnyKind(is_subscription, filter_id) == filter_id \in DOMAIN filters

\* filter.is_subscription == IS_SUBSCRIPTION, for a filter that exists
RemovesFilter(is_subscription, filter_id) ==
    /\ filter_id \in DOMAIN filters
    /\ filters[filter_id].is_subscription = is_subscription

\* remove_filter_impl::<IS_SUBSCRIPTION>
RemoveFilterImpl(is_subscription, filter_id) ==
    /\ Begin
    /\ LET removes == RemovesFilter(is_subscription, filter_id)
       IN  /\ filters' = IF removes THEN Restrict(filters, DOMAIN filters \ {filter_id})
                         ELSE filters
           /\ last' = Did(IF is_subscription THEN "remove_subscription" ELSE "remove_filter",
                          filter_id, Ok(removes), [filters |-> filters])
    /\ UNCHANGED << blockchain, state, irregular_state, mem_pool, beneficiary,
                    prev_randao_generator, block_time_offset_seconds,
                    next_block_base_fee_per_gas, next_block_timestamp, next_snapshot_id,
                    snapshots, allow_blocks_with_same_timestamp, is_auto_mining, last_filter_id,
                    impersonated_accounts, now, captured, history >>

RemoveFilter(filter_id) == RemoveFilterImpl(FALSE, filter_id)

RemoveSubscription(filter_id) == RemoveFilterImpl(TRUE, filter_id)

(***************************************************************************)
(* Block-spec resolution and transaction lookup (section 4.8).  These read *)
(* the engine and change nothing: operators on the current state.          *)
(***************************************************************************)
\* BlockSpec::Number, BlockSpec::Tag, BlockSpec::Eip1898 (Hash, Number)
Number(block_number) == [kind |-> "Number", block_number |-> block_number]

Tag(block_tag) == [kind |-> "Tag", tag |-> block_tag]

Eip1898Hash(block_hash, require_canonical) ==
    [kind |-> "Eip1898Hash", block_hash |-> block_hash, require_canonical |-> require_canonical]

Eip1898Number(block_number) == [kind |-> "Eip1898Number", block_number |-> block_number]

BlockTags == {"earliest", "latest", "pending", "safe", "finalized"}

\* .ok_or_else(|| ProviderError::InvalidBlockNumberOrHash(block_spec.clone()))
FoundOrInvalid(block_opt, block_spec) ==
    IF IsSome(block_opt) THEN Ok(block_opt)
    ELSE Err([name |-> "InvalidBlockNumberOrHash", block_spec |-> block_spec])

\* Faulty variants of BlockByBlockSpec: safe and finalized resolve to the tip
\* on every hard fork; earliest resolves to the tip; a block that is not in
\* the chain resolves to no block instead of an error.
BlockByBlockSpecAnyFork(block_spec) ==
    IF block_spec.kind \in {"Number", "Eip1898Number"}
    THEN FoundOrInvalid(BlockByNumber(blockchain, block_spec.block_number), block_spec)
    ELSE IF block_spec.kind = "Eip1898Hash"
    THEN FoundOrInvalid(BlockByHash(blockchain, block_spec.block_hash), block_spec)
    ELSE IF block_spec.tag = "earliest" THEN Ok(BlockByNumber(blockchain, 0))
    ELSE IF block_spec.tag = "pending" THEN Ok(None)
    ELSE Ok(Some(LastBlock(blockchain)))

BlockByBlockSpecEarliestIsTip(block_spec) ==
    IF block_spec.kind \in {"Number", "Eip1898Number"}
    THEN FoundOrInvalid(BlockByNumber(blockchain, block_spec.block_number), block_spec)
    ELSE IF block_spec.kind = "Eip1898Hash"
    THEN FoundOrInvalid(BlockByHash(blockchain, block_spec.block_hash), block_spec)
    ELSE IF block_spec.tag = "pending" THEN Ok(None)
    ELSE IF block_spec.tag \in {"finalized", "safe"} /\ ~AtLeastMerge(blockchain.spec_id)
    THEN Err([name |-> "InvalidBlockTag", block_spec |-> block_spec,
              spec |-> blockchain.spec_id])
    ELSE Ok(Some(LastBlock(blockchain)))

BlockByBlockSpecLenient(block_spec) ==
    IF block_spec.kind \in {"Number", "Eip1898Number"}
    THEN Ok(BlockByNumber(blockchain, block_spec.block_number))
    ELSE IF block_spec.kind = "Eip1898Hash"
    THEN Ok(BlockByHash(blockchain, block_spec.block_hash))
    ELSE IF block_spec.tag = "earliest" THEN Ok(BlockByNumber(blockchain, 0))
    ELSE IF block_spec.tag = "pending" THEN Ok(None)
    ELSE IF block_spec.tag \in {"finalized", "safe"} /\ ~AtLeastMerge(blockchain.spec_id)
    THEN Err([name |-> "InvalidBlockTag", block_spec |-> block_spec,
              spec |-> blockchain.spec_id])
    ELSE Ok(Some(LastBlock(blockchain)))

\* block_by_block_spec: Ok(Some(block)), Ok(None) for pending, or an error.
BlockByBlockSpec(block_spec) ==
    IF block_spec.kind \in {"Number", "Eip1898Number"}
    THEN FoundOrInvalid(BlockByNumber(blockchain, block_spec.block_number), block_spec)
    ELSE IF block_spec.kind = "Eip1898Hash"
    THEN FoundOrInvalid(BlockByHash(blockchain, block_spec.block_hash), block_spec)
    ELSE IF block_spec.tag = "earliest"
    THEN \* .expect("genesis block should always exist")
         IF IsSome(BlockByNumber(blockchain, 0)) THEN Ok(BlockByNumber(blockchain, 0)) ELSE Panic
    ELSE IF block_spec.tag \in {"finalized", "safe"}
    THEN IF AtLeastMerge(blockchain.spec_id) THEN Ok(Some(LastBlock(blockchain)))
         ELSE Err([name |-> "InvalidBlockTag", block_spec |-> block_spec,
                   spec |-> blockchain.spec_id])
    ELSE IF block_spec.tag = "latest" THEN Ok(Some(LastBlock(blockchain)))
    ELSE Ok(None)

\* transaction_receipt
TransactionReceipt(transaction_hash) ==
    Ok(ReceiptByTransactionHash(blockchain, transaction_hash))

\* transaction_by_hash: from the mempool (no block data), else from the chain.
TransactionByHash(transaction_hash) ==
    IF IsSome(PoolTransactionByHash(mem_pool, transaction_hash))
    THEN Ok(Some([signed_transaction |-> Unwrap(PoolTransactionByHash(mem_pool, transaction_hash)),
                  block_data |-> None]))
    ELSE IF IsSome(BlockByTransactionHash(blockchain, transaction_hash))
    THEN LET block == Unwrap(BlockByTransactionHash(blockchain, transaction_hash))
             receipt == ReceiptByTransactionHash(blockchain, transaction_hash)
         IN  IF ~IsSome(receipt) THEN Panic
             ELSE LET tx_index == Unwrap(receipt).transaction_index
                  IN  IF tx_index + 1 \notin 1..Len(block.transactions) THEN Panic
                      ELSE Ok(Some([signed_transaction |-> block.transactions[tx_index + 1],
                                    block_data |-> Some([block |-> block,
                                                         transaction_index |-> tx_index])]))
    ELSE Ok(None)

\* Faulty variant of StateByBlockSpec: the irregular overrides are not layered.
StateByBlockSpecCanonical(block_spec) ==
    Ok(StateAtBlockNumber(blockchain, LastBlockNumber(blockchain), EmptyMap))

\* state_by_block_spec(block_spec): the state of the pending block for a spec
\* that resolves to no block, else the state at the resolved block's (or,
\* without a spec, the tip's) number under the irregular overrides.
StateByBlockSpec(block_spec) ==
    LET resolved == IF IsSome(block_spec) THEN BlockByBlockSpec(Unwrap(block_spec))
                    ELSE Ok(Some(LastBlock(blockchain)))
    IN  IF resolved.tag # "Ok" THEN resolved
        ELSE IF ~IsSome(resolved.val)
        THEN Ok(MineBlock(NextBlockTimestamp(None).val.block_timestamp,
                          IF AtLeastMerge(blockchain.spec_id)
                          THEN Some(prev_randao_generator) ELSE None).state)
        ELSE Ok(StateAtBlockNumber(blockchain, Unwrap(resolved.val).number, irregular_state))

\* balance(address, block_spec)
Balance(address, block_spec) ==
    LET st == StateByBlockSpec(block_spec)
    IN  IF st.tag # "Ok" THEN st
        ELSE Ok(IF IsSome(Basic(st.val, address)) THEN Unwrap(Basic(st.val, address)).balance
                ELSE 0)

\* get_transaction_count(address, block_spec)
GetTransactionCount(address, block_spec) ==
    LET st == StateByBlockSpec(block_spec)
    IN  IF st.tag # "Ok" THEN st
        ELSE Ok(IF IsSome(Basic(st.val, address)) THEN Unwrap(Basic(st.val, address)).nonce
                ELSE 0)

Next ==
    \/ Tick
    \/ \E increment \in Increments : IncreaseBlockTime(increment)
    \/ MakeSnapshot
    \/ \E id \in SnapshotIds : RevertToSnapshot(id)
    \/ \E timestamp \in TimestampArgs, fault \in Faults :
            MineAndCommitBlockWith(timestamp, fault)
    \/ MinePendingBlock
    \/ \E timestamp \in Timestamps : SetNextBlockTimestamp(timestamp)
    \/ \E coinbase \in Addresses : SetCoinbase(coinbase)
    \/ \E enabled \in BOOLEAN : SetAutoMining(enabled)
    \/ \E fee \in BaseFees : SetNextBlockBaseFeePerGas(fee)
    \/ \E v \in RandaoValues : SetNextPrevRandao(v)
    \/ \E a \in Addresses, v \in Balances : SetBalance(a, v)
    \/ \E a \in Addresses, n \in Nonces : SetNonce(a, n)
    \/ \E gas_limit \in GasLimits : SetBlockGasLimit(gas_limit)
    \/ \E a \in Addresses, c \in Codes : SetCode(a, c)
    \/ \E a \in Addresses, v \in SlotValues : SetAccountStorageSlot(a, v)
    \/ \E a \in Addresses : ImpersonateAccount(a)
    \/ \E a \in Addresses : StopImpersonatingAccount(a)
    \/ \E request \in Txs : SendTransaction(request)
    \/ NewPendingTransactionFilter
    \/ \E id \in FilterIds : GetFilterChanges(id)
    \/ \E id \in FilterIds : GetFilterLogs(id)
    \/ \E id \in FilterIds : RemoveFilter(id)
    \/ \E id \in FilterIds : RemoveSubscription(id)

Init == InitWith(1, MaxSteps)

Spec == Init /\ [][Next]_vars

(***************************************************************************)
(* Narrower specifications: fewer operations, longer behaviours.           *)
(***************************************************************************)
\* Block production with snapshots and the clock.
NextMining ==
    \/ Tick
    \/ MakeSnapshot
    \/ \E id \in SnapshotIds : RevertToSnapshot(id)
    \/ \E timestamp \in TimestampArgs : MineAndCommitBlock(timestamp)
    \/ \E timestamp \in Timestamps : SetNextBlockTimestamp(timestamp)
    \/ \E request \in Txs : SendTransaction(request)

SpecMining == InitWith(1, MiningSteps) /\ [][NextMining]_vars

\* Snapshots with every operation that changes what a snapshot captures.
NextRestore ==
    \/ Tick
    \/ MakeSnapshot
    \/ \E id \in SnapshotIds : RevertToSnapshot(id)
    \/ \E timestamp \in TimestampArgs : MineAndCommitBlock(timestamp)
    \/ \E timestamp \in Timestamps : SetNextBlockTimestamp(timestamp)
    \/ \E coinbase \in Addresses : SetCoinbase(coinbase)
    \/ \E fee \in BaseFees : SetNextBlockBaseFeePerGas(fee)
    \/ \E v \in RandaoValues : SetNextPrevRandao(v)
    \/ \E a \in Addresses, v \in Balances : SetBalance(a, v)
    \/ \E a \in Addresses, n \in Nonces : SetNonce(a, n)
    \/ \E a \in Addresses, c \in Codes : SetCode(a, c)
    \/ \E a \in Addresses, v \in SlotValues : SetAccountStorageSlot(a, v)
    \/ \E request \in Txs : SendTransaction(request)

SpecRestore == InitWith(1, RestoreSteps) /\ [][NextRestore]_vars

\* The chain under mining, sending and snapshots, for the lookups.
NextLookup ==
    \/ MakeSnapshot
    \/ \E id \in SnapshotIds : RevertToSnapshot(id)
    \/ \E timestamp \in TimestampArgs : MineAndCommitBlock(timestamp)
    \/ \E request \in Txs : SendTransaction(request)

SpecLookup == InitWith(1, LookupSteps) /\ [][NextLookup]_vars

\* Timestamps: mining, arming, the offset, the clock and snapshots.
NextTime ==
    \/ Tick
    \/ \E increment \in Increments : IncreaseBlockTime(increment)
    \/ MakeSnapshot
    \/ \E id \in SnapshotIds : RevertToSnapshot(id)
    \/ \E timestamp \in TimestampArgs : MineAndCommitBlock(timestamp)
    \/ \E timestamp \in Timestamps : SetNextBlockTimestamp(timestamp)
    \/ \E fee \in BaseFees : SetNextBlockBaseFeePerGas(fee)

SpecTime == InitWith(1, TimeSteps) /\ [][NextTime]_vars

\* Commits in which a collaborator may fail, with what a commit consumes.
NextFault ==
    \/ \E timestamp \in TimestampArgs, fault \in Faults :
            MineAndCommitBlockWith(timestamp, fault)
    \/ MinePendingBlock
    \/ \E timestamp \in Timestamps : SetNextBlockTimestamp(timestamp)
    \/ \E fee \in BaseFees : SetNextBlockBaseFeePerGas(fee)
    \/ \E request \in Txs : SendTransaction(request)

SpecFault == InitWith(1, FaultSteps) /\ [][NextFault]_vars

\* The mempool under everything that re-partitions it, with impersonation.
NextPool ==
    \/ \E a \in Addresses : ImpersonateAccount(a)
    \/ \E a \in Addresses : StopImpersonatingAccount(a)
    \/ \E request \in Txs : SendTransaction(request)
    \/ \E a \in Addresses, v \in Balances : SetBalance(a, v)
    \/ \E a \in Addresses, n \in Nonces : SetNonce(a, n)
    \/ \E gas_limit \in GasLimits : SetBlockGasLimit(gas_limit)
    \/ MineAndCommitBlock(None)
    \/ MakeSnapshot
    \/ \E id \in SnapshotIds : RevertToSnapshot(id)

SpecPool == InitWith(1, PoolSteps) /\ [][NextPool]_vars

\* Sending, mining and the two setters that re-validate the mempool.
NextEvict ==
    \/ \E request \in Txs : SendTransaction(request)
    \/ \E a \in Addresses, v \in Balances : SetBalance(a, v)
    \/ \E a \in Addresses, n \in Nonces : SetNonce(a, n)
    \/ MineAndCommitBlock(None)

SpecEvict == InitWith(1, EvictSteps) /\ [][NextEvict]_vars

\* The forced writes, with mining to move the tip.
NextForce ==
    \/ \E a \in Addresses, v \in Balances : SetBalance(a, v)
    \/ \E a \in Addresses, n \in Nonces : SetNonce(a, n)
    \/ \E a \in Addresses, c \in Codes : SetCode(a, c)
    \/ \E a \in Addresses, v \in SlotValues : SetAccountStorageSlot(a, v)
    \/ MineAndCommitBlock(None)

SpecForce == InitWith(1, ForceSteps) /\ [][NextForce]_vars

\* Balances by height: forced balances, transactions and blocks.
NextHeights ==
    \/ \E a \in Addresses, v \in Balances : SetBalance(a, v)
    \/ \E request \in Txs : SendTransaction(request)
    \/ MineAndCommitBlock(None)

SpecHeights == InitWith(1, HeightSteps) /\ [][NextHeights]_vars

\* Snapshots with what a snapshot does not hold: filters, impersonation and
\* the auto-mining flag.
NextFrame ==
    \/ MakeSnapshot
    \/ \E id \in SnapshotIds : RevertToSnapshot(id)
    \/ NewPendingTransactionFilter
    \/ \E request \in Txs : SendTransaction(request)
    \/ \E a \in Addresses : ImpersonateAccount(a)
    \/ \E enabled \in BOOLEAN : SetAutoMining(enabled)

SpecFrame == InitWith(1, FrameSteps) /\ [][NextFrame]_vars

\* Filters with the operations that feed them and with snapshots.
NextFilter ==
    \/ MakeSnapshot
    \/ \E id \in SnapshotIds : RevertToSnapshot(id)
    \/ \E request \in Txs : SendTransaction(request)
    \/ NewPendingTransactionFilter
    \/ \E id \in FilterIds : GetFilterChanges(id)
    \/ \E id \in FilterIds : GetFilterLogs(id)
    \/ \E id \in FilterIds : RemoveFilter(id)
    \/ \E id \in FilterIds : RemoveSubscription(id)

SpecFilter == InitWith(1, FilterSteps) /\ [][NextFilter]_vars

(***************************************************************************)
(* Properties.  Each is a predicate on the state after an operation: last  *)
(* holds the operation, its argument, its result and values from before.   *)
(***************************************************************************)
Mined == last.op = "mine_and_commit_block" /\ last.res.tag = "Ok"

Reverted == last.op = "revert_to_snapshot" /\ last.res = Ok(TRUE)

\* What make_snapshot recorded for the id a revert restored.
RevertedCapture == Unwrap(last.pre.captured)

\* C1: every successful mine_and_commit_block raises last_block_number by
\* exactly 1, and the new tip's parent_hash is the hash of the previous tip.
C1_MineExtendsTip ==
    Mined =>
        /\ LastBlockNumber(blockchain) = last.pre.number + 1
        /\ LastBlock(blockchain).parent_hash = last.pre.tip.hash
        /\ LastBlock(blockchain) = last.res.val

\* A second block mined with an explicit timestamp on top of a mined block.
C1_Witness ==
    /\ Mined
    /\ IsSome(last.arg)
    /\ last.pre.number = 1
    /\ LastBlockNumber(blockchain) = 2

\* C2: the first make_snapshot returns 1, and every make_snapshot returns an
\* id strictly greater than every id returned before, reverts and mining in
\* between included: no id is handed out twice.
C2_SnapshotIdsIncrease ==
    LET ids == history.snapshot_ids
    IN  /\ (Len(ids) >= 1 => ids[1] = 1)
        /\ \A i, j \in 1..Len(ids) : i < j => ids[i] < ids[j]

\* make_snapshot after a successful revert used up an earlier id, with a block
\* mined at some point.
C2_Witness ==
    /\ last.op = "make_snapshot"
    /\ Len(history.snapshot_ids) >= 2
    /\ history.spent # {}
    /\ last.res.val \notin history.spent
    /\ LastBlockNumber(blockchain) >= 1

\* C3: after revert_to_snapshot(k) with k in the registry, the registry holds
\* exactly the snapshots it held before with an id smaller than k.
C3_RevertKeepsSmallerIds ==
    (last.op = "revert_to_snapshot" /\ last.res.tag = "Ok"
        /\ last.arg \in DOMAIN last.pre.snapshots) =>
        snapshots = Restrict(last.pre.snapshots,
                             {k \in DOMAIN last.pre.snapshots : k < last.arg})

\* A revert to the middle one of three snapshots.
C3_Witness ==
    /\ Reverted
    /\ \E k \in DOMAIN last.pre.snapshots : k < last.arg
    /\ \E k \in DOMAIN last.pre.snapshots : k > last.arg
    /\ DOMAIN snapshots # {}

\* C4: revert_to_snapshot returns true exactly when the id is in the registry;
\* an id that a successful revert used up (the id itself, or a larger id at a
\* revert to a smaller one) makes every later revert to it return false.
C4_RevertOnceOnly ==
    (last.op = "revert_to_snapshot" /\ last.res.tag = "Ok") =>
        /\ last.res.val = (last.arg \in DOMAIN last.pre.snapshots)
        /\ (last.arg \in last.pre.spent => last.res.val = FALSE)

\* A revert to an id that an earlier successful revert used up.
C4_Witness ==
    /\ last.op = "revert_to_snapshot"
    /\ last.arg \in last.pre.spent
    /\ last.res = Ok(FALSE)

\* C5: a successful revert_to_snapshot restores the beneficiary, the irregular
\* state, the mempool, the next-block base fee, the next-block timestamp, the
\* randomness source and the current state to their values at capture, and
\* last_block_number to the block number at capture, whatever ran in between.
C5_RevertRestores ==
    Reverted =>
        LET at_capture == RevertedCapture.engine
        IN  /\ beneficiary = at_capture.beneficiary
            /\ irregular_state = at_capture.irregular_state
            /\ mem_pool = at_capture.mem_pool
            /\ next_block_base_fee_per_gas = at_capture.next_block_base_fee_per_gas
            /\ next_block_timestamp = at_capture.next_block_timestamp
            /\ prev_randao_generator = at_capture.prev_randao_generator
            /\ state = at_capture.state
            /\ LastBlockNumber(blockchain) = LastBlockNumber(at_capture.blockchain)

\* A successful revert from an engine whose state and irregular state had
\* moved away from the captured ones.
C5_Witness ==
    /\ Reverted
    /\ last.pre.engine.state # RevertedCapture.engine.state
    /\ last.pre.engine.irregular_state # RevertedCapture.engine.irregular_state
    /\ state = RevertedCapture.engine.state

\* The engine after make_snapshot and a revert to the id it returned, given
\* the engine before the pair and the id make_snapshot will return next.
AfterMakeAndRevert(before, next_id) ==
    [before EXCEPT
        !.block_time_offset_seconds =
            WrapAdd(RevertedCapture.engine.block_time_offset_seconds,
                    last.pre.now - RevertedCapture.time),
        !.next_snapshot_id = next_id]

C7_AsStated ==
    Reverted =>
        WrapAdd(last.pre.now, block_time_offset_seconds)
            = WrapAdd(RevertedCapture.time, RevertedCapture.engine.block_time_offset_seconds)

\* C8: filter ids start at 1 and each allocation returns the last allocated id
\* plus one, so ids strictly increase and none is handed out again, not
\* after the filter is removed and not after a snapshot revert.
C8_FilterIdsIncrease ==
    LET ids == history.filter_ids
    IN  \A i \in 1..Len(ids) : ids[i] = i

\* A filter id allocated after filter 1 was removed and after a successful
\* snapshot revert.
C8_Witness ==
    /\ last.op = "new_pending_transaction_filter"
    /\ Len(history.filter_ids) >= 2
    /\ 1 \notin DOMAIN filters
    /\ history.spent # {}

\* C9: get_filter_changes on an existing filter returns the buffered events
\* and leaves the filter's buffer empty, so the same call repeated right away
\* returns no events; on a missing id it returns nothing and changes nothing.
C9_GetFilterChangesDrains ==
    last.op = "get_filter_changes" =>
        IF last.arg \in DOMAIN last.pre.filters
        THEN LET filter == last.pre.filters[last.arg]
             IN  /\ last.res = Ok(Some(FilteredEvents(filter.kind, filter.events)))
                 /\ last.arg \in DOMAIN filters
                 /\ filters[last.arg].events = << >>
                 /\ (IsSome(last.pre.previous) /\ Unwrap(last.pre.previous).arg = last.arg)
                        => Unwrap(last.res.val).events = << >>
        ELSE /\ last.res = Ok(None)
             /\ Engine = last.pre.engine

\* The same filter polled twice in a row, the first poll returning a
\* transaction hash.
C9_Witness ==
    /\ last.op = "get_filter_changes"
    /\ last.arg \in DOMAIN last.pre.filters
    /\ IsSome(last.pre.previous)
    /\ Unwrap(last.pre.previous).arg = last.arg
    /\ Unwrap(Unwrap(last.pre.previous).res.val).events # << >>

\* C10: get_filter_logs on an existing filter that is not a Logs filter fails
\* with InvalidFilterSubscriptionType carrying the filter id, the expected type
\* Logs and the filter's type; on a missing id it succeeds with nothing.
C10_GetFilterLogsType ==
    last.op = "get_filter_logs" =>
        IF last.arg \in DOMAIN last.pre.filters
        THEN last.pre.filters[last.arg].kind # Logs =>
                last.res = Err([name |-> "InvalidFilterSubscriptionType",
                                filter_id |-> last.arg,
                                expected |-> Logs,
                                actual |-> last.pre.filters[last.arg].kind])
        ELSE last.res = Ok(None)

\* get_filter_logs on a pending-transaction filter.
C10_Witness ==
    /\ last.op = "get_filter_logs"
    /\ last.arg \in DOMAIN last.pre.filters
    /\ last.pre.filters[last.arg].kind = NewPendingTransactions
    /\ last.res.tag = "Err"

\* C11: remove_filter(id) returns true and removes the filter exactly when a
\* filter with that id exists and is a polling filter, remove_subscription(id)
\* exactly when it exists and is a subscription; when either returns false the
\* filter registry is unchanged.
C11_RemoveMatchesFlag ==
    last.op \in {"remove_filter", "remove_subscription"} =>
        LET before == last.pre.filters
            matches == /\ last.arg \in DOMAIN before
                       /\ before[last.arg].is_subscription = (last.op = "remove_subscription")
        IN  /\ last.res = Ok(matches)
            /\ filters = IF matches THEN Restrict(before, DOMAIN before \ {last.arg}) ELSE before

\* remove_subscription refused on an existing polling filter, which stays,
\* after remove_filter removed another one.
C11_Witness ==
    /\ last.op = "remove_subscription"
    /\ last.res = Ok(FALSE)
    /\ last.arg \in DOMAIN filters
    /\ Len(history.filter_ids) > Cardinality(DOMAIN filters)

\* C12: when add_pending_transaction succeeds the transaction is in the
\* mempool and every pending-transaction filter of that moment has the hash
\* appended to its buffer; when it is rejected no filter buffer and no mempool
\* queue changes.
C12_PendingReachesFilters ==
    last.op = "send_transaction" =>
        IF last.res.tag = "Ok"
        THEN /\ last.res.val = last.arg.hash
             /\ IsSome(PoolTransactionByHash(mem_pool, last.arg.hash))
             /\ DOMAIN filters = DOMAIN last.pre.filters
             /\ \A id \in DOMAIN filters :
                    filters[id] =
                        IF last.pre.filters[id].kind = NewPendingTransactions
                        THEN [last.pre.filters[id] EXCEPT !.events = Append(@, last.arg.hash)]
                        ELSE last.pre.filters[id]
        ELSE /\ filters = last.pre.filters
             /\ mem_pool = last.pre.mem_pool

\* A second transaction accepted with two filters in the registry, one of
\* them already holding the first hash.
C12_Witness ==
    /\ last.op = "send_transaction"
    /\ last.res.tag = "Ok"
    /\ Cardinality(DOMAIN filters) >= 2
    /\ \E id \in DOMAIN filters : Len(filters[id].events) >= 2
    /\ \E id \in DOMAIN filters : Len(filters[id].events) = 1

\* C14: with tag safe or finalized, block_by_block_spec returns the current
\* tip (the same block as latest) when the chain's hard fork is MERGE or
\* later, and fails with InvalidBlockTag carrying the block spec and the hard
\* fork when it is earlier, in every reachable state.
C14_SafeFinalizedByFork ==
    \A t \in {"safe", "finalized"} :
        IF AtLeastMerge(blockchain.spec_id)
        THEN /\ BlockByBlockSpec(Tag(t)) = Ok(Some(LastBlock(blockchain)))
             /\ BlockByBlockSpec(Tag(t)) = BlockByBlockSpec(Tag("latest"))
        ELSE BlockByBlockSpec(Tag(t)) =
                Err([name |-> "InvalidBlockTag", block_spec |-> Tag(t),
                     spec |-> blockchain.spec_id])

\* A chain before MERGE with a mined block on top of genesis: safe is
\* refused while latest resolves to the mined block.
C14_Witness ==
    /\ blockchain.spec_id = LONDON
    /\ Mined
    /\ BlockByBlockSpec(Tag("safe")).tag = "Err"
    /\ BlockByBlockSpec(Tag("latest")) = Ok(Some(last.res.val))

\* C15: after any sequence of mine_and_commit_block, make_snapshot and
\* revert_to_snapshot, block_by_block_spec resolves earliest to a block with
\* number 0, latest to a block whose number is last_block_number, and pending
\* to no block.
C15_EarliestLatestPending ==
    /\ BlockByBlockSpec(Tag("earliest")).tag = "Ok"
    /\ IsSome(BlockByBlockSpec(Tag("earliest")).val)
    /\ Unwrap(BlockByBlockSpec(Tag("earliest")).val).number = 0
    /\ BlockByBlockSpec(Tag("latest")).tag = "Ok"
    /\ IsSome(BlockByBlockSpec(Tag("latest")).val)
    /\ Unwrap(BlockByBlockSpec(Tag("latest")).val).number = LastBlockNumber(blockchain)
    /\ BlockByBlockSpec(Tag("pending")) = Ok(None)

\* A chain of height 1 left by a revert that dropped a block.
C15_Witness ==
    /\ Reverted
    /\ LastBlockNumber(blockchain) = 1
    /\ LastBlockNumber(last.pre.engine.blockchain) = 2
    /\ Unwrap(BlockByBlockSpec(Tag("latest")).val).number = 1

\* A hash that no block has.
UnknownHash == << "block", "unknown" >>

InvalidBlockNumberOrHash(block_spec) ==
    Err([name |-> "InvalidBlockNumberOrHash", block_spec |-> block_spec])

\* The blocks a successful revert dropped: those above the snapshot's height.
DroppedBlocks ==
    {b \in SeqToSet(last.pre.engine.blockchain.blocks) :
        b.number > LastBlockNumber(RevertedCapture.engine.blockchain)}

C17_SetNextBlockTimestamp ==
    last.op = "set_next_block_timestamp" =>
        IF last.arg < last.pre.previous
        THEN /\ last.res = Err([name |-> "TimestampLowerThanPrevious",
                                proposed |-> last.arg, previous |-> last.pre.previous])
             /\ next_block_timestamp = last.pre.armed
        ELSE IF last.arg = last.pre.previous
        THEN /\ last.res = Err([name |-> "TimestampEqualsPrevious", proposed |-> last.arg])
             /\ next_block_timestamp = last.pre.armed
        ELSE /\ last.res = Ok(last.arg)
             /\ next_block_timestamp = Some(last.arg)

\* The tip's own timestamp refused on an engine that allows blocks with the
\* same timestamp, with another timestamp armed before and still armed.
C17_Witness ==
    /\ last.op = "set_next_block_timestamp"
    /\ last.arg = last.pre.previous
    /\ allow_blocks_with_same_timestamp
    /\ IsSome(last.pre.armed)
    /\ next_block_timestamp = last.pre.armed

MinedAt == last.op = "mine_and_commit_block" /\ IsSome(last.arg)

TimestampLowerThanPrevious ==
    Err([name |-> "TimestampLowerThanPrevious",
         proposed |-> Unwrap(last.arg), previous |-> last.pre.tip.timestamp])

C19_AsStated ==
    \A i \in 1..(Len(blockchain.blocks) - 1) :
        IF allow_blocks_with_same_timestamp
        THEN blockchain.blocks[i + 1].timestamp >= blockchain.blocks[i].timestamp
        ELSE blockchain.blocks[i + 1].timestamp > blockchain.blocks[i].timestamp

\* C20 as stated: when mine_and_commit_block returns an error, at whichever
\* step, the randomness source, offset, next-block base fee, next-block
\* timestamp, blockchain, mempool and state equal their values before the call.
C20_AsStated ==
    (last.op = "mine_and_commit_block" /\ last.res.tag = "Err") =>
        /\ prev_randao_generator = last.pre.engine.prev_randao_generator
        /\ block_time_offset_seconds = last.pre.engine.block_time_offset_seconds
        /\ next_block_base_fee_per_gas = last.pre.engine.next_block_base_fee_per_gas
        /\ next_block_timestamp = last.pre.engine.next_block_timestamp
        /\ blockchain = last.pre.engine.blockchain
        /\ mem_pool = last.pre.engine.mem_pool
        /\ state = last.pre.engine.state

\* C21: materializing the pending block changes nothing in the engine: the
\* blockchain and last_block_number, mempool, current state, randomness
\* source, block-time offset, next-block base fee and next-block timestamp
\* are the same after mine_pending_block as before it.
C21_PendingBlockChangesNothing ==
    last.op = "mine_pending_block" =>
        /\ blockchain = last.pre.engine.blockchain
        /\ LastBlockNumber(blockchain) = LastBlockNumber(last.pre.engine.blockchain)
        /\ mem_pool = last.pre.engine.mem_pool
        /\ state = last.pre.engine.state
        /\ prev_randao_generator = last.pre.engine.prev_randao_generator
        /\ block_time_offset_seconds = last.pre.engine.block_time_offset_seconds
        /\ next_block_base_fee_per_gas = last.pre.engine.next_block_base_fee_per_gas
        /\ next_block_timestamp = last.pre.engine.next_block_timestamp

\* A pending block that holds a transaction of the mempool, produced at a
\* fork with a prevrandao, with a timestamp and a base fee armed: all of
\* them are still in place.
C21_Witness ==
    /\ last.op = "mine_pending_block"
    /\ last.res.tag = "Ok"
    /\ Len(last.res.val.transactions) >= 1
    /\ IsSome(last.res.val.prevrandao)
    /\ IsSome(next_block_timestamp)
    /\ IsSome(next_block_base_fee_per_gas)
    /\ Len(mem_pool.pending) >= 1

\* C22: right after set_balance(a, v), balance(a, Latest) returns v, and right
\* after set_nonce(a, n), get_transaction_count(a, Latest) returns n, whatever
\* overrides exist at the same or lower heights and whatever was mined.
C22_SetThenRead ==
    /\ last.op = "set_balance" =>
          Balance(last.arg[1], Some(Tag("latest"))) = Ok(last.arg[2])
    /\ last.op = "set_nonce" =>
          GetTransactionCount(last.arg[1], Some(Tag("latest"))) = Ok(last.arg[2])

\* A balance set on top of a mined block, with an override at a lower height
\* that gave the same account another balance.
C22_Witness ==
    /\ last.op = "set_balance"
    /\ LastBlockNumber(blockchain) >= 1
    /\ 0 \in DOMAIN irregular_state
    /\ last.arg[1] \in DOMAIN irregular_state[0].diff
    /\ irregular_state[0].diff[last.arg[1]].info.balance # last.arg[2]
    /\ Balance(last.arg[1], Some(Tag("latest"))) = Ok(last.arg[2])

\* stop_impersonating_account(a) directly after impersonate_account(a)
StoppedAfterImpersonate ==
    last.op = "stop_impersonating_account" /\ IsSome(last.pre.before_pair)

\* C23 as stated: impersonate_account(a) followed by
\* stop_impersonating_account(a) returns the impersonated set to its state
\* before the pair, also when a was already impersonated, and
\* stop_impersonating_account(a) returns true exactly when a was in the set.
C23_AsStated ==
    /\ StoppedAfterImpersonate => impersonated_accounts = Unwrap(last.pre.before_pair)
    /\ last.op = "stop_impersonating_account" =>
          last.res = Ok(last.arg \in last.pre.accounts)

\* C23, amended: impersonate_account(a) followed by
\* stop_impersonating_account(a) leaves the set that was there before the
\* pair without a: the set before the pair when a was not impersonated then,
\* and that set less a when it was.  stop_impersonating_account(a) returns
\* true exactly when a was in the set, so always after impersonate_account(a).
C23_ImpersonateThenStop ==
    /\ StoppedAfterImpersonate =>
          /\ impersonated_accounts = Unwrap(last.pre.before_pair) \ {last.arg}
          /\ last.arg \notin Unwrap(last.pre.before_pair) =>
                impersonated_accounts = Unwrap(last.pre.before_pair)
          /\ last.res = Ok(TRUE)
    /\ last.op = "stop_impersonating_account" =>
          /\ last.res = Ok(last.arg \in last.pre.accounts)
          /\ impersonated_accounts = last.pre.accounts \ {last.arg}

\* The pair on an address that was not impersonated, with another address
\* impersonated before and after.
C23_Witness ==
    /\ StoppedAfterImpersonate
    /\ last.arg \notin Unwrap(last.pre.before_pair)
    /\ Unwrap(last.pre.before_pair) # {}
    /\ impersonated_accounts = Unwrap(last.pre.before_pair)

C25_SetBalanceEvicts ==
    last.op = "set_balance" =>
        /\ \A t \in PoolTxs(mem_pool) :
              t.caller = last.arg[1] => UpfrontCost(t) <= last.arg[2]
        /\ \A t \in PoolTxs(last.pre.mem_pool) :
              (t.caller = last.arg[1] /\ UpfrontCost(t) > last.arg[2]) =>
                  /\ t \notin PoolTxs(mem_pool)
                  /\ ~IsSome(PoolTransactionByHash(mem_pool, t.hash))
                  /\ TransactionByHash(t.hash) = Ok(None)

\* Pending transactions of the sender whose nonce was the sender's account
\* nonce before set_nonce lowered it.
Demoted ==
    {t \in SeqToSet(last.pre.mem_pool.pending) :
        /\ t.caller = last.arg[1]
        /\ t.nonce = last.pre.nonce
        /\ last.arg[2] < t.nonce}

\* C26: a transaction T of sender X that is pending because T.nonce equals X's
\* account nonce stays in the mempool, still found by hash, when set_nonce
\* lowers X's nonce below T.nonce, but is then in the future queue and no
\* longer in the pending queue.
C26_SetNonceDemotes ==
    last.op = "set_nonce" =>
        \A t \in Demoted :
            /\ t \in SeqToSet(mem_pool.future)
            /\ t \notin SeqToSet(mem_pool.pending)
            /\ PoolTransactionByHash(mem_pool, t.hash) = Some(t)
            /\ TransactionByHash(t.hash) = Ok(Some([signed_transaction |-> t, block_data |-> None]))

C26_Witness ==
    /\ last.op = "set_nonce"
    /\ Demoted # {}
    /\ mem_pool.pending = << >>
    /\ mem_pool.future # << >>

\* C27 as stated: after a successful mine_and_commit_block every transaction
\* of the new block is absent from the mempool and transaction_by_hash
\* returns it with the new block and its position in it; transaction_by_hash
\* returns a transaction of the mempool with no block data and nothing for an
\* unknown hash; no transaction hash is both in the mempool and in a block.
C27_AsStated ==
    /\ Mined =>
          LET block == LastBlock(blockchain)
          IN  \A k \in 1..Len(block.transactions) :
                  /\ block.transactions[k] \notin PoolTxs(mem_pool)
                  /\ TransactionByHash(block.transactions[k].hash) =
                        Ok(Some([signed_transaction |-> block.transactions[k],
                                 block_data |-> Some([block |-> block,
                                                      transaction_index |-> k - 1])]))
    /\ \A t \in PoolTxs(mem_pool) :
          TransactionByHash(t.hash) = Ok(Some([signed_transaction |-> t, block_data |-> None]))
    /\ TransactionByHash("unknown") = Ok(None)
    /\ \A t \in PoolTxs(mem_pool) : ~IsSome(BlockByTransactionHash(blockchain, t.hash))

\* The pending transactions of a sender.
PendingOf(sender) == {t \in SeqToSet(mem_pool.pending) : t.caller = sender}

UsedTimestamp == IF IsSome(last.arg) THEN last.arg ELSE last.pre.armed

\* C29 as stated: after every successful mine_and_commit_block the next-block
\* base fee and the next-block timestamp are cleared; the block-time offset
\* changes only when a caller-supplied or pre-armed timestamp was used, and
\* is then that timestamp minus the wall-clock time of the call.
C29_AsStated ==
    Mined =>
        /\ next_block_base_fee_per_gas = None
        /\ next_block_timestamp = None
        /\ block_time_offset_seconds =
              IF IsSome(UsedTimestamp) THEN Unwrap(UsedTimestamp) - last.pre.now
              ELSE last.pre.offset

\* C30: for every NewPendingTransactions filter, the results of all
\* get_filter_changes calls on it, concatenated, followed by what its buffer
\* still holds, are the hashes of the transactions added since the filter was
\* created, in the order of the adds: none lost, none delivered twice, none
\* from before the creation.
C30_DrainsDeliverAdds ==
    \A id \in DOMAIN filters :
        filters[id].kind = NewPendingTransactions =>
            history.delivered[id] \o filters[id].events = history.added[id]

\* Two filters, the second created after the first add: the first drained of
\* two hashes, the second still holding the one hash added since its creation.
C30_Witness ==
    \E a \in DOMAIN filters, b \in DOMAIN filters :
        /\ Len(history.delivered[a]) = 2
        /\ filters[a].events = << >>
        /\ Len(history.added[b]) = 1
        /\ filters[b].events = history.added[b]

\* C31: the storage-slot change set_account_storage_slot(a, v) records in the
\* override at the current height has as original value the value the slot
\* held before the operation, and as present value v.
C31_AsStated ==
    last.op = "set_account_storage_slot" =>
        LET n == LastBlockNumber(blockchain)
            a == last.arg[1]
        IN  /\ n \in DOMAIN irregular_state
            /\ a \in DOMAIN irregular_state[n].diff
            /\ irregular_state[n].diff[a].slot =
                  Some(StorageSlotChanged(last.pre.old, last.arg[2]))

\* The four operations that write into the irregular state.
ForcedWrites == {"set_balance", "set_nonce", "set_code", "set_account_storage_slot"}

\* The diff's entry for address a agrees with account a of state st in
\* balance, nonce and code hash, and in the slot when it recorded one.
Reflects(entry, st, a) ==
    /\ entry.info.balance = AcctBalance(st, a)
    /\ entry.info.nonce = AcctNonce(st, a)
    /\ IsSome(Basic(st, a)) => entry.info.code_hash = Unwrap(Basic(st, a)).code_hash
    /\ IsSome(entry.slot) => Unwrap(entry.slot).present_value = Storage(st, a)

BalanceIn(st, a) == AcctBalance(st, a)

\* Senders of the transactions of a block, and its beneficiary when it
\* earned fees.
TouchedBy(block) ==
    {t.caller : t \in SeqToSet(block.transactions)} \cup
        (IF block.transactions = << >> THEN {} ELSE {block.beneficiary})

\* C33: balance(a, Number(h)) reads the chain's state at h under the
\* overrides at heights <= h only; set_balance at tip t gives v at t and
\* leaves the balances of every height below t; a block that does not touch
\* an address leaves the balance of the height below visible at its height.
C33_BalanceByHeight ==
    LET n == LastBlockNumber(blockchain)
        reported == [h \in 0..n |-> [a \in Addresses |-> Balance(a, Some(Number(h)))]]
        layered == [h \in 0..n |->
                      StateAtBlockNumber(blockchain, h,
                          Restrict(irregular_state, DOMAIN irregular_state \cap 0..h))]
        before == [h \in 0..(n - 1) |-> StateAtBlockNumber(blockchain, h, last.pre.irregular)]
    IN  /\ \A h \in 0..n, a \in Addresses : reported[h][a] = Ok(BalanceIn(layered[h], a))
        /\ last.op = "set_balance" =>
              /\ reported[n][last.arg[1]] = Ok(last.arg[2])
              /\ \A h \in 0..(n - 1), a \in Addresses :
                    reported[h][a] = Ok(BalanceIn(before[h], a))
        /\ (last.op = "mine_and_commit_block" /\ last.res.tag = "Ok") =>
              \A a \in Addresses \ TouchedBy(LastBlock(blockchain)) :
                  reported[n][a] = reported[n - 1][a]

\* A balance forced at a height t >= 1 to another value than the height
\* below reports, still reported at the tip after a further block.
C33_Witness ==
    LET n == LastBlockNumber(blockchain)
    IN  /\ last.op = "mine_and_commit_block"
        /\ last.res.tag = "Ok"
        /\ \E t \in DOMAIN irregular_state : \E a \in DOMAIN irregular_state[t].diff :
              /\ 1 <= t
              /\ t < n
              /\ Balance(a, Some(Number(t))) = Ok(irregular_state[t].diff[a].info.balance)
              /\ Balance(a, Some(Number(t - 1))) # Balance(a, Some(Number(t)))
              /\ Balance(a, Some(Number(n))) = Balance(a, Some(Number(t)))

\* C34: on a chain at or after MERGE, the block mine_and_commit_block commits
\* while the generator holds the value v handed to set_next_prev_randao has
\* prevrandao v, and the pending block materialized just before the commit
\* carries the prevrandao of the block committed.
C34_AsStated ==
    (/\ last.op = "mine_and_commit_block"
     /\ last.res.tag = "Ok"
     /\ AtLeastMerge(blockchain.spec_id)) =>
        /\ last.pre.generator \in RandaoValues =>
              last.res.val.prevrandao = Some(last.pre.generator)
        /\ last.pre.pending_prevrandao = last.res.val.prevrandao

\* C35: revert_to_snapshot(id) for an id that is not in the registry returns
\* false and changes nothing; every snapshot of the registry, those with a
\* larger id included, is still there.
C35_AsStated ==
    (/\ last.op = "revert_to_snapshot"
     /\ last.arg \notin DOMAIN last.pre.snapshots) =>
        /\ last.res = Ok(FALSE)
        /\ snapshots = last.pre.snapshots
        /\ Engine = last.pre.engine

\* Block specs that read the tip: none, and the tag latest.
TipSpecs == {None, Some(Tag("latest"))}

\* C36: the state materialized for no block spec and for latest holds, for
\* every address, the balance, nonce and storage slot of the current state.
C36_AsStated ==
    \A block_spec \in TipSpecs : \A read \in {StateByBlockSpec(block_spec)} :
        /\ read.tag = "Ok"
        /\ \A a \in Addresses :
              /\ AcctBalance(read.val, a) = AcctBalance(state, a)
              /\ AcctNonce(read.val, a) = AcctNonce(state, a)
              /\ Storage(read.val, a) = Storage(state, a)

\* C37: whenever mine_and_commit_block or mine_pending_block computes the
\* offset from a caller-supplied or pre-armed timestamp, that timestamp is at
\* least the wall-clock time of the call, so the subtraction does not underflow.
C37_AsStated ==
    /\ (last.op = "mine_and_commit_block" /\ last.res.tag # "Err" /\ IsSome(UsedTimestamp)) =>
          Unwrap(UsedTimestamp) >= last.pre.now
    /\ (last.op = "mine_pending_block" /\ IsSome(last.pre.engine.next_block_timestamp)) =>
          Unwrap(last.pre.engine.next_block_timestamp) >= last.pre.now

\* C38: after revert_to_snapshot the filters with their buffered events, the
\* last filter id, the impersonated accounts and the auto-mining flag are what
\* they were just before the call.
C38_RevertKeepsFrame ==
    last.op = "revert_to_snapshot" =>
        /\ filters = last.pre.engine.filters
        /\ last_filter_id = last.pre.engine.last_filter_id
        /\ impersonated_accounts = last.pre.engine.impersonated_accounts
        /\ is_auto_mining = last.pre.engine.is_auto_mining

\* A successful revert to a snapshot taken before a filter was created, an
\* account impersonated and auto-mining switched on: all three are as the
\* revert found them.
C38_Witness ==
    /\ Reverted
    /\ DOMAIN filters # DOMAIN RevertedCapture.engine.filters
    /\ impersonated_accounts # RevertedCapture.engine.impersonated_accounts
    /\ is_auto_mining # RevertedCapture.engine.is_auto_mining
    /\ filters = last.pre.engine.filters

====
